---------------------------- MODULE Spec2Model ----------------------------
(***************************************************************************)
(* A model of the icebreaker model catalog and transfer subsystem          *)
(* (core/src/model.rs) and of the application's handling of scan results   *)
(* (src/main.rs).                                                          *)
(*                                                                         *)
(* Eleven specifications share this module:                                *)
(*   SpecDownload    File::download, one await point per step              *)
(*   SpecDescriptor  FileAndAPI::download for a remote-API entry           *)
(*   SpecInstalled   such downloads into a root without descriptors, and   *)
(*                   FileAndAPI::list                                      *)
(*   SpecScan        Library::scan, one directory entry per step, and      *)
(*                   Icebreaker::update for Message::Scanned               *)
(*   SpecBookmarks   the application's bookmark actions and the            *)
(*                   save_bookmarks tasks they start, several at a time    *)
(*   SpecApp         bookmark actions, save_bookmarks and scans together   *)
(*   SpecSave        the same steps, started from any library value        *)
(*   SpecPure        the functions without side effects, one call per step *)
(*   SpecStatus      Library::status_check futures running side by side    *)
(*   SpecSearch      the search screen: listings, selection, status batch  *)
(*   SpecDebounce    its debounce steps, every timer firing in the end     *)
(* Strings that the code takes apart (ids, file names) are sequences of    *)
(* one-character strings.                                                  *)
(***************************************************************************)
EXTENDS Integers, Sequences, FiniteSets, TLC

VARIABLES
    \* ---- File::download ----
    dfs,        \* the files File::download touches: path -> content
    ddirs,      \* the per-model directories that exist under the library root
    dpc,        \* position of the running download call
    dfile,      \* the File the running (or last) call was made for
    dresult,    \* what the last call returned
    dpre,       \* destination and legacy file when the call started (history)
    dlog,       \* what the call has done so far (history)
    dprev,      \* file and result of the call before this one (history)
    \* ---- FileAndAPI::download, remote-API entry ----
    jfs,        \* descriptor files in the library root: file name -> content
    jcall,      \* the last descriptor download: entry, result, file before
    jlist,      \* the FileAndAPI::list call made since, and what it returned
    \* ---- Library::scan and Message::Scanned ----
    tree,       \* the directory tree under the library root
    bmfile,     \* the bookmark file
    spc,        \* position of the running scan
    sfiles,     \* scan's local `files` map, as it is being built
    swalk,      \* scan's three nested read_dir iterators
    sresult,    \* what the last scan returned
    shist,      \* history of the running scan
    library,    \* Icebreaker.library, the in-memory registry
    app,        \* history of the application's Scanned handler
    \* ---- search::Action::Bookmark and Library::save_bookmarks ----
    saves,      \* the save_bookmarks tasks in flight, one per slot
    bhist,      \* history of bookmark actions and bookmark-file writes
    \* ---- functions without side effects ----
    pcall,      \* the last call: function, arguments, value returned
    \* ---- Library::status_check ----
    flags,      \* the StatusCheck cell of each remote entry
    probes,     \* the status_check futures in flight, one per slot
    phist,      \* history: the flag values a concurrent reader has loaded
    \* ---- the search screen ----
    search,     \* the Search value in Icebreaker.screen
    timers,     \* the one-second timers started and not yet fired
    requests,   \* the Model::list and Model::search tasks in flight
    fetches,    \* the Details::fetch and File::list tasks in flight
    qhist       \* history of searches issued and of the last CheckStatus

dlVars   == <<dfs, ddirs, dpc, dfile, dresult, dpre, dlog, dprev>>
descVars == <<jfs, jcall, jlist>>
scanVars == <<tree, bmfile, spc, sfiles, swalk, sresult, shist, library, app>>
bmVars   == <<saves, bhist>>
pureVars == <<pcall>>
statusVars == <<flags, probes, phist>>
searchVars == <<search, timers, requests, fetches, qhist>>
vars     == <<dlVars, descVars, scanVars, bmVars, pureVars, statusVars, searchVars>>

-----------------------------------------------------------------------------
(* Bounds *)

\* Largest file size, in bytes, the model distinguishes.
MaxSize == 2

\* save_bookmarks tasks that can be in flight at the same time.
MaxSaves == 2

\* The status_check futures that can be in flight at once.
MaxProbes == 2

\* Listings in flight at once, SearchChanged messages in one run, and the
\* largest first_n of a CheckStatus.
MaxRequests == 2
MaxChanges == 3
MaxFirst == 1

-----------------------------------------------------------------------------
(* Option, strings, paths *)

None == <<>>
Some(x) == <<x>>

GGUF == <<"g", "g", "u", "f">>
TMP  == <<"t", "m", "p">>
JSON == <<"j", "s", "o", "n">>

RECURSIVE LastIndexOf(_, _, _)
\* Largest i <= n with s[i] = c, or 0.
LastIndexOf(s, c, n) ==
    IF n = 0 THEN 0
    ELSE IF s[n] = c THEN n
    ELSE LastIndexOf(s, c, n - 1)

\* std::path::Path::extension of a file name: the part after the last '.',
\* none when there is no '.' or the only '.' starts the name.
Extension(name) ==
    LET i == LastIndexOf(name, ".", Len(name))
    IN  IF i <= 1 THEN None ELSE Some(SubSeq(name, i + 1, Len(name)))

\* std::path::Path::file_stem.
FileStem(name) ==
    LET i == LastIndexOf(name, ".", Len(name))
    IN  IF i <= 1 THEN name ELSE SubSeq(name, 1, i - 1)

\* std::path::Path::with_extension on the last component.
WithExtension(name, ext) == FileStem(name) \o <<".">> \o ext


-----------------------------------------------------------------------------
(* File::download (core/src/model.rs 471-510) *)

\* Model ids and file names the download calls are made for.
DlIds == { <<"a", "/", "b">> }
DlNames == { <<"x", ".">> \o GGUF }
DlSizes == {None} \cup { Some(n) : n \in 1..MaxSize }

\* struct File { model, name, size }
DlFiles == [model : DlIds, name : DlNames, size : DlSizes]

\* A file's content: its length and where its bytes came from.
NoFile == [size |-> 0, src |-> "none"]
Exists(c) == c.src # "none"
Contents(src) == [size : 0..MaxSize, src : {src}]

NoPath == [root |-> "", dir |-> <<>>, name |-> <<>>]

\* Directory::old().0.join(&self.name)
OldPath(f) == [root |-> "old", dir |-> <<>>, name |-> f.name]

\* directory.0.join(&self.model.0).join(&self.name)
ModelPath(f) == [root |-> "lib", dir |-> f.model, name |-> f.name]

\* A staging path that is the destination itself.
TempPathInPlace(f) == ModelPath(f)

\* model_path.with_extension("tmp")
TempPath(f) == [root |-> "lib", dir |-> f.model, name |-> WithExtension(f.name, TMP)]

DlPaths ==
    { OldPath(f) : f \in DlFiles } \cup { ModelPath(f) : f \in DlFiles }
        \cup { TempPath(f) : f \in DlFiles }

NoResult == [kind |-> "none", path |-> NoPath, at |-> ""]
Ok(p) == [kind |-> "ok", path |-> p, at |-> ""]
Err(op) == [kind |-> "err", path |-> NoPath, at |-> op]

\* The operations the call has performed, in order.
Did(op) == \E i \in 1..Len(dlog) : dlog[i].op = op
DidOk(op) == \E i \in 1..Len(dlog) : dlog[i].op = op /\ dlog[i].ok
Logged(op, ok) == Append(dlog, [op |-> op, ok |-> ok])

\* A size test that refuses a file with no recorded size.
SizeMatchesIfRecorded(size, len) == size = Some(len)

\* self.size.is_none_or(|size| size == file_metadata.len())
SizeMatches(size, len) == size = None \/ size = Some(len)

\* The call returns: `return Ok(model_path)`, or `?` on an Err.
DlReturn(r) ==
    /\ dpc' = "idle"
    /\ dresult' = r

DlFrame == UNCHANGED <<descVars, scanVars, bmVars, pureVars, statusVars, searchVars>>

\* A call of File::download(file, directory, sender) begins.
Download_Call(f) ==
    /\ dpc = "idle"
    /\ dpc' = "create_dir_all"
    /\ dfile' = f
    /\ dpre' = [dest |-> dfs[ModelPath(f)], old |-> dfs[OldPath(f)]]
    /\ dprev' = [file |-> dfile, result |-> dresult]
    /\ dresult' = NoResult
    /\ dlog' = <<>>
    /\ UNCHANGED <<dfs, ddirs>>
    /\ DlFrame

\* fs::create_dir_all(&directory).await?
Download_CreateDirAll ==
    /\ dpc = "create_dir_all"
    /\ \E ok \in BOOLEAN :
        /\ dlog' = Logged("create_dir_all", ok)
        /\ IF ok
           THEN /\ ddirs' = ddirs \cup {dfile.model}
                /\ dpc' = "try_exists"
                /\ UNCHANGED dresult
           ELSE /\ DlReturn(Err("create_dir_all"))
                /\ UNCHANGED ddirs
    /\ UNCHANGED <<dfs, dfile, dpre, dprev>>
    /\ DlFrame

\* if fs::try_exists(&model_path).await? { ... }
Download_TryExists ==
    /\ dpc = "try_exists"
    /\ \E ok \in BOOLEAN :
        /\ dlog' = Logged("try_exists", ok)
        /\ IF ok
           THEN /\ dpc' = IF Exists(dfs[ModelPath(dfile)]) THEN "metadata" ELSE "copy"
                /\ UNCHANGED dresult
           ELSE DlReturn(Err("try_exists"))
    /\ UNCHANGED <<dfs, ddirs, dfile, dpre, dprev>>
    /\ DlFrame

\* let file_metadata = fs::metadata(&model_path).await?;
\* if self.size.is_none_or(..) { return Ok(model_path); }
Download_Metadata ==
    /\ dpc = "metadata"
    /\ \E ok \in BOOLEAN :
        /\ dlog' = Logged("metadata", ok)
        /\ IF ~ok
           THEN DlReturn(Err("metadata"))
           ELSE IF SizeMatches(dfile.size, dfs[ModelPath(dfile)].size)
           THEN DlReturn(Ok(ModelPath(dfile)))
           ELSE /\ dpc' = "remove_file"
                /\ UNCHANGED dresult
    /\ UNCHANGED <<dfs, ddirs, dfile, dpre, dprev>>
    /\ DlFrame

\* fs::remove_file(&model_path).await?;
Download_RemoveFile ==
    /\ dpc = "remove_file"
    /\ \E ok \in BOOLEAN :
        /\ dlog' = Logged("remove_file", ok)
        /\ IF ok
           THEN /\ dfs' = [dfs EXCEPT ![ModelPath(dfile)] = NoFile]
                /\ dpc' = "copy"
                /\ UNCHANGED dresult
           ELSE /\ DlReturn(Err("remove_file"))
                /\ UNCHANGED dfs
    /\ UNCHANGED <<ddirs, dfile, dpre, dprev>>
    /\ DlFrame

\* A call that goes on to the transfer whatever the copy did.
AfterCopyAlwaysTransfers(ok) == "download_file"

\* Where the call goes after fs::copy: an Err of copy is taken for "no legacy
\* file" and falls through to the transfer.
AfterCopy(ok) == IF ok THEN "remove_old" ELSE "download_file"

\* if fs::copy(&old_path, &model_path).await.is_ok() { ... }
\* The copy can succeed only when the legacy file exists; a failed copy is
\* taken to leave the destination as it was.
Download_Copy ==
    /\ dpc = "copy"
    /\ \E ok \in BOOLEAN :
        /\ ok => Exists(dfs[OldPath(dfile)])
        /\ dlog' = Logged("copy", ok)
        /\ dfs' = IF ok
                  THEN [dfs EXCEPT ![ModelPath(dfile)] = dfs[OldPath(dfile)]]
                  ELSE dfs
        /\ dpc' = AfterCopy(ok)
    /\ UNCHANGED <<ddirs, dfile, dresult, dpre, dprev>>
    /\ DlFrame

\* let _ = fs::remove_file(old_path).await;  return Ok(model_path);
\* The result of the removal is discarded.
Download_RemoveOld ==
    /\ dpc = "remove_old"
    /\ \E ok \in BOOLEAN :
        /\ dlog' = Logged("remove_old", ok)
        /\ dfs' = IF ok THEN [dfs EXCEPT ![OldPath(dfile)] = NoFile] ELSE dfs
    /\ DlReturn(Ok(ModelPath(dfile)))
    /\ UNCHANGED <<ddirs, dfile, dpre, dprev>>
    /\ DlFrame

\* request::download_file(url, &temp_path).run(sender) issues the request:
\* either the request fails before anything is written, or the staging file
\* is created empty.
Download_Request ==
    /\ dpc = "download_file"
    /\ \E ok \in BOOLEAN :
        IF ok
        THEN /\ dlog' = Logged("request", TRUE)
             /\ dfs' = [dfs EXCEPT ![TempPath(dfile)] = [size |-> 0, src |-> "remote"]]
             /\ dpc' = "streaming"
        ELSE /\ dlog' = Append(Logged("request", FALSE), [op |-> "download_file", ok |-> FALSE])
             /\ dpc' = "after_download_file"
             /\ UNCHANGED dfs
    /\ UNCHANGED <<ddirs, dfile, dresult, dpre, dprev>>
    /\ DlFrame

\* One chunk of the response body arrives and is appended to the staging file.
Download_Chunk ==
    /\ dpc = "streaming"
    /\ dfs[TempPath(dfile)].size < MaxSize
    /\ dfs' = [dfs EXCEPT ![TempPath(dfile)].size = @ + 1]
    /\ UNCHANGED <<ddirs, dpc, dfile, dresult, dpre, dlog, dprev>>
    /\ DlFrame

\* The stream ends: the body is complete (whatever its length), or the
\* transport or a write fails.
Download_StreamEnd ==
    /\ dpc = "streaming"
    /\ \E ok \in BOOLEAN : dlog' = Logged("download_file", ok)
    /\ dpc' = "after_download_file"
    /\ UNCHANGED <<dfs, ddirs, dfile, dresult, dpre, dprev>>
    /\ DlFrame

\* The `?` after download_file(..).run(sender).await: an Err returns at once,
\* before the rename.
AfterDownloadFile(ok) == IF ok THEN "rename" ELSE "return_err"

\* request::download_file(url, &temp_path).run(sender).await?;
Download_AfterDownloadFile ==
    /\ dpc = "after_download_file"
    /\ LET next == AfterDownloadFile(dlog[Len(dlog)].ok)
       IN  IF next = "return_err"
           THEN DlReturn(Err("download_file"))
           ELSE /\ dpc' = next
                /\ UNCHANGED dresult
    /\ UNCHANGED <<dfs, ddirs, dfile, dpre, dlog, dprev>>
    /\ DlFrame

\* fs::rename(temp_path, &model_path).await?;  Ok(model_path)
Download_Rename ==
    /\ dpc = "rename"
    /\ \E ok \in BOOLEAN :
        /\ ok => Exists(dfs[TempPath(dfile)])
        /\ dlog' = Logged("rename", ok)
        /\ IF ok
           THEN /\ dfs' = [dfs EXCEPT ![ModelPath(dfile)] = dfs[TempPath(dfile)],
                                      ![TempPath(dfile)] = NoFile]
                /\ DlReturn(Ok(ModelPath(dfile)))
           ELSE /\ DlReturn(Err("rename"))
                /\ UNCHANGED dfs
    /\ UNCHANGED <<ddirs, dfile, dpre, dprev>>
    /\ DlFrame


\* Before the first call: any destination file, any legacy file, no staging
\* file; a destination file implies its directory.
DownloadInit ==
    /\ dfs \in [DlPaths -> {NoFile} \cup Contents("local") \cup Contents("legacy")]
    /\ \A f \in DlFiles :
        /\ dfs[ModelPath(f)] \in {NoFile} \cup Contents("local")
        /\ dfs[OldPath(f)] \in {NoFile} \cup Contents("legacy")
        /\ dfs[TempPath(f)] = NoFile
    /\ ddirs \in SUBSET DlIds
    /\ \A f \in DlFiles : Exists(dfs[ModelPath(f)]) => f.model \in ddirs
    /\ dpc = "idle"
    /\ dfile \in DlFiles
    /\ dresult = NoResult
    /\ dpre = [dest |-> NoFile, old |-> NoFile]
    /\ dlog = <<>>
    /\ dprev = [file |-> dfile, result |-> NoResult]

\* The download variables when another specification runs.
DownloadIdle ==
    /\ dfs = [p \in DlPaths |-> NoFile]
    /\ ddirs = {}
    /\ dpc = "off"
    /\ dfile = CHOOSE f \in DlFiles : f.size = None
    /\ dresult = NoResult
    /\ dpre = [dest |-> NoFile, old |-> NoFile]
    /\ dlog = <<>>
    /\ dprev = [file |-> dfile, result |-> NoResult]

DownloadNext ==
    \/ \E f \in DlFiles : Download_Call(f)
    \/ Download_CreateDirAll
    \/ Download_TryExists
    \/ Download_Metadata
    \/ Download_RemoveFile
    \/ Download_Copy
    \/ Download_RemoveOld
    \/ Download_Request
    \/ Download_Chunk
    \/ Download_StreamEnd
    \/ Download_AfterDownloadFile
    \/ Download_Rename



-----------------------------------------------------------------------------
(* Identity and addressing (core/src/model.rs 66-73, 616-629) *)

\* enum APIType (two of its three variants)
APITypes == {"NanoGPT", "OpenAI"}

\* EndpointId::Local(id)
Local(id) == [tag |-> "Local", api_type |-> "", id |-> id]

\* EndpointId::Remote { api_type, id }
Remote(t, id) == [tag |-> "Remote", api_type |-> t, id |-> id]

\* enum StatusCheck; Unchecked is the #[default] variant, the value
\* Model::list gives every entry it builds.
StatusChecks == {"Unchecked", "CheckingStatus", "Up", "Down"}
StatusDefault == "Unchecked"

\* EndpointId::slash_id
slash_id(e) == e.id

-----------------------------------------------------------------------------
(* FileAndAPI::download, remote-API entry (core/src/model.rs 397-419) *)

\* Ids of the remote-API entries: two that differ only in '/' against '_',
\* and one without a separator.
DescIds == { <<"a", "/", "b">>, <<"a", "_", "b">>, <<"c">> }

DescEndpoints ==
    { Local(id) : id \in DescIds } \cup { Remote(t, id) : t \in APITypes, id \in DescIds }

\* The provider whose APIAccess a ModelOnline carries: the one its endpoint
\* names (Model::list sets config to the provider it listed the model from).
ConfigOf(e) == IF e.tag = "Remote" THEN e.api_type ELSE "NanoGPT"

\* struct ModelOnline { endpoint_id, cost, config, state_check }; cost is
\* absent or one price, config is the provider kind, and a ModelOnline that
\* is installed has the default status.
ModelOnlines ==
    { [endpoint_id |-> e, cost |-> c, config |-> ConfigOf(e), state_check |-> "Unchecked"] :
        e \in DescEndpoints, c \in {None, Some(1)} }

\* struct FileAndAPI { file, api }: the entries whose api side is populated,
\* and the empty entry. (An entry with only a file goes to File::download.)
NoEntry == [file |-> None, api |-> None]
ApiEntries == { [file |-> None, api |-> Some(m)] : m \in ModelOnlines }

\* id.0.replace('/', "_")
Sanitize(id) == [i \in 1..Len(id) |-> IF id[i] = "/" THEN "_" ELSE id[i]]

\* directory.0.join(format!("{}.json", id.0.replace('/', "_")))
JsonPath(m) ==
    [root |-> "lib", dir |-> <<>>,
     name |-> Sanitize(slash_id(m.endpoint_id)) \o <<".">> \o JSON]

JsonPaths == { JsonPath(m) : m \in ModelOnlines }

\* serde_json::to_string_pretty(ap): the text of the descriptor, holding the
\* fields of the ModelOnline.
DescriptorJson(m) == [doc |-> "ModelOnline", value |-> Some(m)]

\* What a file in the library root can hold: nothing (no such file), text that
\* is no descriptor, or a descriptor.
NoDoc == [doc |-> "none", value |-> None]
OtherDoc == [doc |-> "other", value |-> None]
Docs == {NoDoc, OtherDoc} \cup { DescriptorJson(m) : m \in ModelOnlines }

\* A test that lets the descriptor be written whether the file exists or not.
WriteAlways(exists) == TRUE

\* if !json_path.exists() { ... }
WriteDescriptor(exists) == ~exists

DescFrame == UNCHANGED <<dlVars, scanVars, bmVars, pureVars, statusVars, searchVars>>

\* No FileAndAPI::list call since the last download.
NoList == [ran |-> FALSE, kind |-> "none", at |-> "", models |-> <<>>]

\* FileAndAPI::download for an entry whose api side is populated: the whole
\* first match arm. fs::write either writes the whole text or fails and
\* leaves the directory as it was.
DownloadAPI(fa) ==
    /\ fa.api # None
    /\ LET ap == fa.api[1]
           json_path == JsonPath(ap)
           exists == jfs[json_path] # NoDoc
       IN  IF WriteDescriptor(exists)
           THEN \E ok \in BOOLEAN :
                   /\ jfs' = IF ok
                             THEN [jfs EXCEPT ![json_path] = DescriptorJson(ap)]
                             ELSE jfs
                   /\ jcall' = [entry |-> fa, before |-> jfs,
                                wrote |-> ok,
                                result |-> IF ok THEN Ok(json_path) ELSE Err("write")]
           ELSE /\ UNCHANGED jfs
                /\ jcall' = [entry |-> fa, before |-> jfs,
                             wrote |-> FALSE,
                             result |-> Ok(json_path)]
    /\ jlist' = NoList
    /\ DescFrame

\* FileAndAPI::download for an entry with neither side populated: the last
\* match arm.
DownloadEmpty(fa) ==
    /\ fa.api = None /\ fa.file = None
    /\ jcall' = [entry |-> fa, before |-> jfs, wrote |-> FALSE,
                 result |-> Err("FileOrAPI is empty")]
    /\ UNCHANGED jfs
    /\ jlist' = NoList
    /\ DescFrame

\* Before the first call the library root holds any files.
DescriptorInit ==
    /\ jfs \in [JsonPaths -> Docs]
    /\ jcall = [entry |-> NoEntry, before |-> jfs, wrote |-> FALSE,
                result |-> NoResult]
    /\ jlist = NoList

DescriptorNext ==
    \/ \E fa \in ApiEntries : DownloadAPI(fa)
    \/ DownloadEmpty(NoEntry)

\* FileAndAPI::list (core/src/model.rs 376-395), after downloads into a
\* library root that held no descriptor.

\* Remote-API entries whose id is the empty string (Id wraps any String).
EmptyIdModels ==
    { [endpoint_id |-> Remote(t, <<>>), cost |-> None, config |-> t,
       state_check |-> "Unchecked"] : t \in APITypes }

Installable == ModelOnlines \cup EmptyIdModels

InstallPaths == { JsonPath(m) : m \in Installable }

\* serde_json::from_str::<ModelOnline>(&content)
FromStr(doc) == IF doc.doc = "ModelOnline" THEN doc.value ELSE None

\* path.extension().and_then(|ext| ext.to_str()) == Some("json")
HasJsonExtension(name) == Extension(name) = Some(JSON)

\* The entries read_dir yields that the loop reads: files of the root with
\* the extension json.
ReadPaths == { p \in DOMAIN jfs : jfs[p] # NoDoc /\ HasJsonExtension(p.name) }

\* The operations of FileAndAPI::list that can fail on the file system.
ListFailures ==
    {"create_dir_all", "read_dir", "next_entry"}
        \cup (IF ReadPaths = {} THEN {} ELSE {"read_to_string"})

\* FileAndAPI::list: the entries in the order read_dir yields them; the
\* first failing operation ends the call with its error, and a file that
\* is no descriptor is such a failure (from_str); otherwise one
\* FileAndAPI { file: None, api: Some(model_online) } per file read.
FileAndAPI_list ==
    /\ ~jlist.ran
    /\ \/ \E op \in ListFailures :
              jlist' = [ran |-> TRUE, kind |-> "err", at |-> op, models |-> <<>>]
       \/ /\ \E p \in ReadPaths : FromStr(jfs[p]) = None
          /\ jlist' = [ran |-> TRUE, kind |-> "err", at |-> "from_str", models |-> <<>>]
       \/ /\ \A p \in ReadPaths : FromStr(jfs[p]) # None
          /\ \E order \in [1..Cardinality(ReadPaths) -> ReadPaths] :
                /\ { order[n] : n \in DOMAIN order } = ReadPaths
                /\ jlist' = [ran |-> TRUE, kind |-> "ok", at |-> "",
                             models |-> [n \in DOMAIN order |->
                                            [file |-> None,
                                             api |-> FromStr(jfs[order[n]])]]]
    /\ UNCHANGED <<jfs, jcall>>
    /\ DescFrame

\* The library root holds no descriptor: each file is absent or holds text
\* that is no descriptor.
InstalledInit ==
    /\ jfs \in [InstallPaths -> {NoDoc, OtherDoc}]
    /\ jcall = [entry |-> NoEntry, before |-> jfs, wrote |-> FALSE,
                result |-> NoResult]
    /\ jlist = NoList

InstalledNext ==
    \/ \E m \in Installable : DownloadAPI([file |-> None, api |-> Some(m)])
    \/ FileAndAPI_list


-----------------------------------------------------------------------------
(* Library::scan (core/src/model.rs 600-696) and Message::Scanned
   (src/main.rs 141-150, 302-308) *)

\* Names in the library tree.
Author1 == <<"a", "u", "t", "h", "o", "r", "1">>
Author2 == <<"a", "u", "t", "h", "o", "r", "2">>
ModelA == <<"m", "o", "d", "e", "l", "A">>
ModelB == <<"m", "o", "d", "e", "l", "B">>
FileQ4 == <<"m", "o", "d", "e", "l", "A", "-", "Q", "4", "_", "K", "_", "M", ".", "g", "g", "u", "f">>
FileQ8 == <<"m", "o", "d", "e", "l", "A", "-", "Q", "8", "_", "0", ".", "g", "g", "u", "f">>
FileF16 == <<"m", "o", "d", "e", "l", "B", "-", "F", "1", "6", ".", "g", "g", "u", "f">>
Readme == <<"R", "E", "A", "D", "M", "E", ".", "m", "d">>
SubDir == <<"s", "u", "b">>
Deep == <<"d", "e", "e", "p", ".", "g", "g", "u", "f">>
Loose == <<"l", "o", "o", "s", "e", ".", "g", "g", "u", "f">>
Stray == <<"s", "t", "r", "a", "y", ".", "g", "g", "u", "f">>

\* An entry of the tree: its path below the library root, what it is, and
\* its length when it is a regular file.
Node(path, kind, size) == [path |-> path, kind |-> kind, size |-> size]
NoNode == Node(<<>>, "none", 0)
RootNode == Node(<<>>, "dir", 0)

\* A library tree: the root with, depending on the choices, an author entry
\* (a directory or a plain file), a model entry below it (a directory or a
\* plain file), in the model directory a weight file of 1 or 10 bytes (or a
\* directory with a weight file's name) and a second weight file; a second
\* author with one model and one weight file; and, as `extra`, wherever
\* their directory exists: a file that is no weight file and a subdirectory
\* holding a weight file in the model directory, a weight file directly
\* under the author directory and a weight file directly under the root.
TreeOf(a1, m1, x, y, c2, extra) ==
    LET A == <<Author1>>
        M == <<Author1, ModelA>>
        inA == a1 = "dir"
        inM == inA /\ m1 = "dir"
    IN  {RootNode}
        \cup (IF a1 # "none" THEN {Node(A, a1, 1)} ELSE {})
        \cup (IF inA /\ m1 # "none" THEN {Node(M, m1, 1)} ELSE {})
        \cup (IF inM /\ x # NoNode THEN {Node(M \o <<FileQ4>>, x.kind, x.size)} ELSE {})
        \cup (IF inM /\ y THEN {Node(M \o <<FileQ8>>, "file", 1)} ELSE {})
        \cup (IF c2 THEN {Node(<<Author2>>, "dir", 0),
                          Node(<<Author2, ModelB>>, "dir", 0),
                          Node(<<Author2, ModelB, FileF16>>, "file", 1)} ELSE {})
        \cup (IF inM /\ extra THEN {Node(M \o <<Readme>>, "file", 1),
                                    Node(M \o <<SubDir>>, "dir", 0),
                                    Node(M \o <<SubDir, Deep>>, "file", 1)} ELSE {})
        \cup (IF inA /\ extra THEN {Node(A \o <<Loose>>, "file", 1)} ELSE {})
        \cup (IF extra THEN {Node(<<Stray>>, "file", 1)} ELSE {})

Trees ==
    { TreeOf(a1, m1, x, y, c2, extra) :
        a1 \in {"none", "file", "dir"}, m1 \in {"none", "file", "dir"},
        x \in {NoNode, Node(<<>>, "file", 1), Node(<<>>, "file", 10), Node(<<>>, "dir", 0)},
        y \in BOOLEAN, c2 \in BOOLEAN, extra \in BOOLEAN }

\* The entries fs::read_dir(path) yields.
Children(t, path) ==
    { e \in t : /\ Len(e.path) = Len(path) + 1
                /\ SubSeq(e.path, 1, Len(path)) = path }

\* DirEntry::file_name
file_name(e) == e.path[Len(e.path)]

\* Maps (HashMap): functions with a finite domain.
EmptyMap == [k \in {} |-> 0]
MapPut(m, k, v) == [x \in DOMAIN m \cup {k} |-> IF x = k THEN v ELSE m[x]]

\* first.into_iter().chain(second).collect(): an entry of `second` replaces
\* the entry of `first` with the same key.
MapChain(first, second) ==
    [k \in DOMAIN first \cup DOMAIN second |->
        IF k \in DOMAIN second THEN second[k] ELSE first[k]]

\* enum FileOrAPI
FileEntry(f) == [tag |-> "File", value |-> f]
APIEntry(m) == [tag |-> "API", value |-> m]

\* struct APIAccess { openai_compat, kind }
APIAccess(t) == [kind |-> t, openai_compat |-> Some("key")]

\* struct APIBookmarks { api_src, apis, bookmarks }, and its Default.
APIBookmarks(src, apis, bms) == [api_src |-> src, apis |-> apis, bookmarks |-> bms]
DefaultBookmarks == APIBookmarks(EmptyMap, EmptyMap, <<>>)

\* A remote-API model a bookmark file can name.
RemoteC == Remote("NanoGPT", <<"c">>)
OnlineC ==
    [endpoint_id |-> RemoteC, cost |-> None, config |-> "NanoGPT",
     state_check |-> "Unchecked"]

\* Bookmark values a bookmark file can hold as JSON text: the defaults, a
\* provider with two bookmarks, an `apis` object with an entry, and a list
\* that names one endpoint twice.
BookmarkValues ==
    { DefaultBookmarks,
      APIBookmarks([t \in {"NanoGPT"} |-> APIAccess(t)], EmptyMap,
                   <<RemoteC, Local(Author1 \o <<"/">> \o ModelA)>>),
      APIBookmarks([t \in {"NanoGPT"} |-> APIAccess(t)],
                   [e \in {RemoteC} |-> OnlineC], <<RemoteC>>),
      APIBookmarks(EmptyMap, EmptyMap, <<RemoteC, RemoteC>>) }

\* The bookmark file: missing, present and unreadable, or present with a
\* text that is JSON for a bookmark value or is not.
BmMissing == [state |-> "missing", text |-> "", value |-> DefaultBookmarks]
BmUnreadable == [state |-> "unreadable", text |-> "", value |-> DefaultBookmarks]
BmMalformed == [state |-> "readable", text |-> "malformed", value |-> DefaultBookmarks]
BmJson(b) == [state |-> "readable", text |-> "json", value |-> b]
BmFiles == {BmMissing, BmUnreadable, BmMalformed} \cup { BmJson(b) : b \in BookmarkValues }

\* serde_json::from_str::<APIBookmarks>(&content): None for an Err. A JSON
\* object's keys are strings, and a string does not decode into the variants
\* Local(Id) and Remote { .. } of EndpointId, so a text whose `apis` object
\* has an entry is an Err as well.
from_str(bm) ==
    IF bm.text = "json" /\ DOMAIN bm.value.apis = {} THEN Some(bm.value) ELSE None

\* match fs::read_to_string(&bookmarks_file).await {
\*     Ok(content) => serde_json::from_str(&content).unwrap_or_default(),
\*     Err(_) => Default::default() }
LoadBookmarks(bm) ==
    IF bm.state = "readable"
    THEN (IF from_str(bm) = None THEN DefaultBookmarks ELSE from_str(bm)[1])
    ELSE DefaultBookmarks

\* struct Library { directory, api_src, files, bookmarks }, and its Default.
DefaultLibrary ==
    [directory |-> "default", api_src |-> EmptyMap, files |-> EmptyMap, bookmarks |-> <<>>]

\* Ok(Self { directory, files: apis.chain(files).collect(), api_src, bookmarks })
MakeLibrary(dir, files, bookmarks) ==
    [directory |-> dir,
     files |-> MapChain([e \in DOMAIN bookmarks.apis |-> APIEntry(bookmarks.apis[e])], files),
     api_src |-> bookmarks.api_src,
     bookmarks |-> bookmarks.bookmarks]

ScanNone == [kind |-> "none", lib |-> DefaultLibrary, at |-> ""]
ScanOk(lib) == [kind |-> "ok", lib |-> lib, at |-> ""]

\* settings.library: the library root the user configured.
SettingsLibrary == "custom"

\* An error that hands back what was catalogued before it.
ScanErrPartial(op) == ScanOk(MakeLibrary(SettingsLibrary, sfiles, DefaultBookmarks))

\* The `?` on a filesystem operation of the walk: scan returns the Err.
ScanErr(op) == [kind |-> "err", lib |-> DefaultLibrary, at |-> op]

NoWalk == [authors |-> {}, author |-> NoNode, models |-> {}, model |-> NoNode, files |-> {}]

ScanFrame == UNCHANGED <<dlVars, descVars, bmVars, pureVars, statusVars, searchVars>>

\* scan returns r; the runtime will deliver Message::Scanned(r).
ScanReturn(r) ==
    /\ spc' = "returned"
    /\ sresult' = r

\* The operation `op` failed.
Faulted(op) == shist' = [shist EXCEPT !.faults = @ \cup {op}]

\* A task running Library::scan(settings) starts.
Scan_Call ==
    /\ spc = "idle"
    /\ spc' = "create_dir_all"
    /\ sfiles' = EmptyMap
    /\ swalk' = NoWalk
    /\ sresult' = ScanNone
    /\ shist' = [faults |-> {}, bm |-> bmfile]
    /\ UNCHANGED <<tree, bmfile, library, app>>
    /\ ScanFrame

\* fs::create_dir_all(directory).await?
Scan_CreateDirAll ==
    /\ spc = "create_dir_all"
    /\ \E ok \in BOOLEAN :
        IF ok
        THEN /\ tree' = tree \cup {RootNode}
             /\ spc' = "read_dir"
             /\ UNCHANGED <<sresult, shist>>
        ELSE /\ ScanReturn(ScanErr("create_dir_all"))
             /\ Faulted("create_dir_all")
             /\ UNCHANGED tree
    /\ UNCHANGED <<bmfile, sfiles, swalk, library, app>>
    /\ ScanFrame

\* let mut list = fs::read_dir(directory).await?;
Scan_ReadDir ==
    /\ spc = "read_dir"
    /\ \E ok \in BOOLEAN :
        IF ok
        THEN /\ swalk' = [swalk EXCEPT !.authors = Children(tree, <<>>)]
             /\ spc' = "authors"
             /\ UNCHANGED <<sresult, shist>>
        ELSE /\ ScanReturn(ScanErr("read_dir root"))
             /\ Faulted("read_dir root")
             /\ UNCHANGED swalk
    /\ UNCHANGED <<tree, bmfile, sfiles, library, app>>
    /\ ScanFrame

\* while let Some(author) = list.next_entry().await? {
\*     if !author.file_type().await?.is_dir() { continue; }
\*     let mut directory = fs::read_dir(author.path()).await?;
\* One iteration of the outer loop; read_dir yields the entries in any order.
Scan_NextAuthor ==
    /\ spc = "authors"
    /\ \/ /\ ScanReturn(ScanErr("next_entry author"))
          /\ Faulted("next_entry author")
          /\ UNCHANGED swalk
       \/ /\ swalk.authors = {}
          /\ spc' = "bookmarks"
          /\ UNCHANGED <<swalk, sresult, shist>>
       \/ \E author \in swalk.authors, fault \in {"none", "file_type author", "read_dir author"} :
            LET rest == swalk.authors \ {author}
            IN  IF fault = "file_type author"
                THEN /\ ScanReturn(ScanErr(fault))
                     /\ Faulted(fault)
                     /\ UNCHANGED swalk
                ELSE IF author.kind # "dir"
                THEN /\ fault = "none"
                     /\ swalk' = [swalk EXCEPT !.authors = rest]
                     /\ UNCHANGED <<spc, sresult, shist>>
                ELSE IF fault = "read_dir author"
                THEN /\ ScanReturn(ScanErr(fault))
                     /\ Faulted(fault)
                     /\ UNCHANGED swalk
                ELSE /\ swalk' = [swalk EXCEPT !.authors = rest, !.author = author,
                                               !.models = Children(tree, author.path)]
                     /\ spc' = "models"
                     /\ UNCHANGED <<sresult, shist>>
    /\ UNCHANGED <<tree, bmfile, sfiles, library, app>>
    /\ ScanFrame

\* while let Some(model) = directory.next_entry().await? {
\*     if !model.file_type().await?.is_dir() { continue; }
\*     let mut directory = fs::read_dir(model.path()).await?;
\* One iteration of the middle loop.
Scan_NextModel ==
    /\ spc = "models"
    /\ \/ /\ ScanReturn(ScanErr("next_entry model"))
          /\ Faulted("next_entry model")
          /\ UNCHANGED swalk
       \/ /\ swalk.models = {}
          /\ spc' = "authors"
          /\ UNCHANGED <<swalk, sresult, shist>>
       \/ \E model \in swalk.models, fault \in {"none", "file_type model", "read_dir model"} :
            LET rest == swalk.models \ {model}
            IN  IF fault = "file_type model"
                THEN /\ ScanReturn(ScanErr(fault))
                     /\ Faulted(fault)
                     /\ UNCHANGED swalk
                ELSE IF model.kind # "dir"
                THEN /\ fault = "none"
                     /\ swalk' = [swalk EXCEPT !.models = rest]
                     /\ UNCHANGED <<spc, sresult, shist>>
                ELSE IF fault = "read_dir model"
                THEN /\ ScanReturn(ScanErr(fault))
                     /\ Faulted(fault)
                     /\ UNCHANGED swalk
                ELSE /\ swalk' = [swalk EXCEPT !.models = rest, !.model = model,
                                               !.files = Children(tree, model.path)]
                     /\ spc' = "files"
                     /\ UNCHANGED <<sresult, shist>>
    /\ UNCHANGED <<tree, bmfile, sfiles, library, app>>
    /\ ScanFrame

\* A test that looks at the extension alone, whatever the entry's type.
HasWeightFileName(e) == Extension(file_name(e)) = Some(GGUF)

\* file.file_type().await?.is_file()
\*     && file.path().extension().unwrap_or_default() == "gguf"
IsWeightFile(e) == e.kind = "file" /\ Extension(file_name(e)) = Some(GGUF)

\* An id that joins the two directory names without the separator.
ScanIdNoSeparator(author, model) == file_name(author) \o file_name(model)

\* Id(format!("{}/{}", author.file_name().display(), model.file_name().display()))
ScanId(author, model) == file_name(author) \o <<"/">> \o file_name(model)

\* A File that names its model directory without the author.
ScannedFileOfModelDir(author, model, file) ==
    [model |-> file_name(model), name |-> file_name(file), size |-> Some(file.size)]

\* File { model: id, name: file.file_name().display().to_string(),
\*        size: Some(Size(file.metadata().await?.len())) }
ScannedFile(author, model, file) ==
    [model |-> ScanId(author, model), name |-> file_name(file), size |-> Some(file.size)]

\* while let Some(file) = directory.next_entry().await? {
\*     if !is_file || extension != "gguf" { continue; }
\*     ...  let _ = files.insert(f_id, file);
\* One iteration of the inner loop.
Scan_NextFile ==
    /\ spc = "files"
    /\ \/ /\ ScanReturn(ScanErr("next_entry file"))
          /\ Faulted("next_entry file")
          /\ UNCHANGED <<swalk, sfiles>>
       \/ /\ swalk.files = {}
          /\ spc' = "models"
          /\ UNCHANGED <<swalk, sfiles, sresult, shist>>
       \/ \E file \in swalk.files, fault \in {"none", "file_type file", "metadata"} :
            LET rest == swalk.files \ {file}
            IN  IF fault = "file_type file"
                THEN /\ ScanReturn(ScanErr(fault))
                     /\ Faulted(fault)
                     /\ UNCHANGED <<swalk, sfiles>>
                ELSE IF ~IsWeightFile(file)
                THEN /\ fault = "none"
                     /\ swalk' = [swalk EXCEPT !.files = rest]
                     /\ UNCHANGED <<spc, sfiles, sresult, shist>>
                ELSE IF fault = "metadata"
                THEN /\ ScanReturn(ScanErr(fault))
                     /\ Faulted(fault)
                     /\ UNCHANGED <<swalk, sfiles>>
                ELSE /\ swalk' = [swalk EXCEPT !.files = rest]
                     /\ sfiles' = MapPut(sfiles,
                                         Local(ScanId(swalk.author, swalk.model)),
                                         FileEntry(ScannedFile(swalk.author, swalk.model, file)))
                     /\ UNCHANGED <<spc, sresult, shist>>
    /\ UNCHANGED <<tree, bmfile, library, app>>
    /\ ScanFrame

\* The end of scan: the bookmarks that were loaded are merged with the files
\* that were catalogued, and the library is returned.
ScanFinish(bookmarks) ==
    /\ spc = "bookmarks"
    /\ ScanReturn(ScanOk(MakeLibrary(SettingsLibrary, sfiles, bookmarks)))
    /\ UNCHANGED <<tree, sfiles, swalk, shist, library, app>>
    /\ ScanFrame

\* A scan that gives up when the bookmark file cannot be read or decoded.
Scan_ReadBookmarksOrFail ==
    IF bmfile.state = "readable" /\ from_str(bmfile) # None
    THEN ScanFinish(LoadBookmarks(bmfile)) /\ UNCHANGED bmfile
    ELSE /\ spc = "bookmarks"
         /\ ScanReturn(ScanErr("read_to_string"))
         /\ UNCHANGED <<tree, bmfile, sfiles, swalk, shist, library, app>>
         /\ ScanFrame

\* A scan that writes the defaults to a bookmark file it could not load.
Scan_ReadBookmarksAndRepair ==
    /\ ScanFinish(LoadBookmarks(bmfile))
    /\ bmfile' = IF bmfile.state = "readable" /\ from_str(bmfile) # None
                 THEN bmfile
                 ELSE BmJson(DefaultBookmarks)

\* let bookmarks: APIBookmarks = match fs::read_to_string(..).await { .. };
\* Ok(Self { .. })
Scan_ReadBookmarks ==
    /\ ScanFinish(LoadBookmarks(bmfile))
    /\ UNCHANGED bmfile

\* Message::Scanned(Ok(library)) => mem::replace(&mut self.library, library)
\* Message::Scanned(Err(error)) => log::error!("{error}")
LibraryAfterScanned(r, old) == IF r.kind = "ok" THEN r.lib ELSE old

\* Icebreaker::update for Message::Scanned(result): the whole handler. A new
\* library whose directory differs from the old one's starts save_settings.
\* The new library is an allocation no save_bookmarks task points to.
Update_Scanned ==
    /\ spc = "returned"
    /\ spc' = "idle"
    /\ library' = LibraryAfterScanned(sresult, library)
    /\ app' = [last |-> IF sresult.kind = "ok" THEN "Scanned(Ok)" ELSE "Scanned(Err)",
               before |-> library,
               save_settings |-> /\ sresult.kind = "ok"
                                 /\ library.directory # sresult.lib.directory]
    /\ saves' = [i \in DOMAIN saves |->
                   IF sresult.kind = "ok" THEN [saves[i] EXCEPT !.same = FALSE]
                   ELSE saves[i]]
    /\ UNCHANGED <<tree, bmfile, sfiles, swalk, sresult, shist, bhist>>
    /\ UNCHANGED <<dlVars, descVars, pureVars, statusVars, searchVars>>

\* Before the first scan: any library tree (or no library root at all), any
\* bookmark file, and the application holding Library::default().
ScanInit ==
    /\ tree \in Trees \cup {{}}
    /\ bmfile \in BmFiles
    /\ spc = "idle"
    /\ sfiles = EmptyMap
    /\ swalk = NoWalk
    /\ sresult = ScanNone
    /\ shist = [faults |-> {}, bm |-> bmfile]
    /\ library = DefaultLibrary
    /\ app = [last |-> "", before |-> DefaultLibrary, save_settings |-> FALSE]

ScanNext ==
    \/ Scan_Call
    \/ Scan_CreateDirAll
    \/ Scan_ReadDir
    \/ Scan_NextAuthor
    \/ Scan_NextModel
    \/ Scan_NextFile
    \/ Scan_ReadBookmarks
    \/ Update_Scanned

-----------------------------------------------------------------------------
(* search::Action::Bookmark (src/main.rs 177-193), Library::save_bookmarks
   (core/src/model.rs 698-717) and Message::SettingsSaved
   (src/main.rs 298-308) *)

\* The endpoints the search screen offers for bookmarking; where scans run
\* as well, one of them.
BookmarkIds == {RemoteC, Local(Author1 \o <<"/">> \o ModelA)}
AppBookmarkIds == {RemoteC}

\* A save_bookmarks task: where it is, the Arc<Library> it was given (`lib`,
\* and whether that is the allocation Icebreaker.library points to), what it
\* returned; and, as history, the library it was started with. `saves` lists
\* the tasks in the order they were started, the free slots after them.
SaveTask(pc, lib, same, result) ==
    [pc |-> pc, lib |-> lib, same |-> same, result |-> result, snap |-> lib]
NoTask == SaveTask("none", DefaultLibrary, FALSE, "none")

\* The slots without a task.
FreeSlots == { i \in DOMAIN saves : saves[i].pc = "none" }

\* Nothing has been written, no save has returned or failed, and no bookmark
\* action has been processed: `on` are the ids whose last processed action
\* was an addition, `applied` the list that the processed actions give when
\* they are applied in order to the list the first of them found.
NoBookmarkHistory ==
    [written |-> None, saved |-> None, on |-> {}, applied |-> None, failed |-> FALSE]

\* lib.bookmarks.contains(&id)
Contains(bookmarks, id) == \E n \in DOMAIN bookmarks : bookmarks[n] = id

\* if add { if !lib.bookmarks.contains(&id) { lib.bookmarks.push(id.clone()) } }
\* else { lib.bookmarks.retain(|bookmark_id| bookmark_id != &id) }
ApplyBookmark(bookmarks, id, add) ==
    IF add
    THEN (IF Contains(bookmarks, id) THEN bookmarks ELSE Append(bookmarks, id))
    ELSE SelectSeq(bookmarks, LAMBDA b : b # id)

\* An Arc::make_mut that hands out the shared library itself.
MakeMutInPlace == FALSE

\* Arc::make_mut(&mut self.library) clones the library when another Arc
\* points to the same allocation: a task in flight, or a finished task whose
\* message has not been delivered.
MakeMutClones == \E i \in DOMAIN saves : saves[i].pc # "none" /\ saves[i].same

\* What save_bookmarks leaves out of the file: nothing of the bookmarks list.
SavedBookmarksWithoutList(lib) ==
    APIBookmarks(lib.api_src,
                 [e \in { k \in DOMAIN lib.files : lib.files[k].tag = "API" } |->
                     lib.files[e].value],
                 <<>>)

\* APIBookmarks { api_src: self.api_src.clone(),
\*                apis: self.files.iter().filter_map(API only).collect(),
\*                bookmarks: self.bookmarks.clone() }
SavedBookmarks(lib) ==
    APIBookmarks(lib.api_src,
                 [e \in { k \in DOMAIN lib.files : lib.files[k].tag = "API" } |->
                     lib.files[e].value],
                 lib.bookmarks)

\* serde_json::to_string_pretty(&api_bookmarks): None for an Err. The keys of
\* `apis` are EndpointId values, which serialize as a newtype variant or a
\* struct variant; serde_json refuses both as the key of a JSON object, so a
\* value whose `apis` has an entry is an Err.
to_string_pretty(b) == IF DOMAIN b.apis = {} THEN Some(BmJson(b)) ELSE None

\* Icebreaker::update for search::Action::Bookmark(id, add): the whole arm.
\* The library is changed through Arc::make_mut, and a save_bookmarks task is
\* started on a clone of the Arc.
Update_Bookmark(id, add) ==
    /\ spc # "off"
    /\ FreeSlots # {}
    /\ LET slot == CHOOSE i \in FreeSlots : \A j \in FreeSlots : i <= j
           lib == [library EXCEPT !.bookmarks = ApplyBookmark(@, id, add)]
           clones == MakeMutClones
       IN  /\ library' = lib
           /\ saves' = [i \in DOMAIN saves |->
                          IF i = slot
                          THEN SaveTask("to_string_pretty", lib, TRUE, "none")
                          ELSE IF saves[i].pc # "none" /\ saves[i].same
                          THEN (IF clones
                                THEN [saves[i] EXCEPT !.same = FALSE]
                                ELSE [saves[i] EXCEPT !.lib = lib])
                          ELSE saves[i]]
           /\ bhist' = [bhist EXCEPT
                         !.saved = None,
                         !.on = IF add THEN @ \cup {id} ELSE @ \ {id},
                         !.applied = Some(ApplyBookmark(
                                        IF @ = None THEN library.bookmarks ELSE @[1],
                                        id, add))]
    /\ UNCHANGED <<tree, bmfile, spc, sfiles, swalk, sresult, shist, app>>
    /\ UNCHANGED <<dlVars, descVars, pureVars, statusVars, searchVars>>

\* A save_bookmarks task returns; the runtime will deliver
\* Message::SettingsSaved(result). `saved` notes the library of a save that
\* returned, without a failure of the file system, while no scan was running.
SaveReturn(i, result, io_fault) ==
    /\ saves' = [saves EXCEPT ![i].pc = "returned", ![i].result = result]
    /\ bhist' = [bhist EXCEPT !.written = IF result = "ok" THEN Some(saves[i].snap) ELSE @,
                              !.saved = IF spc = "idle" /\ ~io_fault
                                        THEN Some(saves[i].snap)
                                        ELSE None,
                              !.failed = @ \/ result = "err"]

\* let json = serde_json::to_string_pretty(&api_bookmarks)?;
Save_ToStringPretty(i) ==
    /\ saves[i].pc = "to_string_pretty"
    /\ IF to_string_pretty(SavedBookmarks(saves[i].lib)) = None
       THEN SaveReturn(i, "err", FALSE)
       ELSE /\ saves' = [saves EXCEPT ![i].pc = "write"]
            /\ UNCHANGED bhist
    /\ UNCHANGED <<scanVars, dlVars, descVars, pureVars, statusVars, searchVars>>

\* fs::write(bookmarks_file, json).await?; Ok(self)
\* The write replaces the whole file, or fails and leaves it as it was.
Save_Write(i) ==
    /\ saves[i].pc = "write"
    /\ \/ /\ bmfile' = to_string_pretty(SavedBookmarks(saves[i].lib))[1]
          /\ SaveReturn(i, "ok", FALSE)
       \/ /\ SaveReturn(i, "err", TRUE)
          /\ UNCHANGED bmfile
    /\ UNCHANGED <<tree, spc, sfiles, swalk, sresult, shist, library, app>>
    /\ UNCHANGED <<dlVars, descVars, pureVars, statusVars, searchVars>>

\* Message::SettingsSaved(Ok(lib)) => self.library = lib
\* Message::SettingsSaved(Err(error)) => log::error!("{error}")
Update_SettingsSaved(i) ==
    /\ saves[i].pc = "returned"
    /\ library' = IF saves[i].result = "ok" THEN saves[i].lib ELSE library
    /\ saves' = [j \in DOMAIN saves |->
                   LET task == IF j < i THEN saves[j]
                               ELSE IF j < Len(saves) THEN saves[j + 1]
                               ELSE NoTask
                   IN  IF saves[i].result = "ok" /\ ~saves[i].same
                       THEN [task EXCEPT !.same = FALSE]
                       ELSE task]
    /\ UNCHANGED <<tree, bmfile, spc, sfiles, swalk, sresult, shist, app, bhist>>
    /\ UNCHANGED <<dlVars, descVars, pureVars, statusVars, searchVars>>

\* The trees the application specifications scan: an empty library root,
\* and one weight file of one model.
BookmarkTrees ==
    { {RootNode},
      TreeOf("dir", "dir", Node(<<>>, "file", 10), FALSE, FALSE, FALSE) }

\* The bookmark files they start from: none, one with a provider and two
\* bookmarks, and one that names an endpoint twice.
BookmarkFiles ==
    { BmMissing,
      BmJson(APIBookmarks([t \in {"NanoGPT"} |-> APIAccess(t)], EmptyMap,
                          <<RemoteC, Local(Author1 \o <<"/">> \o ModelA)>>)),
      BmJson(APIBookmarks(EmptyMap, EmptyMap, <<RemoteC, RemoteC>>)) }

\* The application as Icebreaker::new leaves it: Library::default() in
\* memory, no scan delivered yet, one save_bookmarks task at a time.
AppInit ==
    /\ tree \in BookmarkTrees
    /\ bmfile \in BookmarkFiles
    /\ spc = "idle"
    /\ sfiles = EmptyMap
    /\ swalk = NoWalk
    /\ sresult = ScanNone
    /\ shist = [faults |-> {}, bm |-> bmfile]
    /\ library = DefaultLibrary
    /\ app = [last |-> "", before |-> DefaultLibrary, save_settings |-> FALSE]
    /\ saves = <<NoTask>>
    /\ bhist = NoBookmarkHistory

\* The application after the scan of an empty library root was delivered,
\* with up to MaxSaves save_bookmarks tasks at a time.
BookmarksInit ==
    /\ tree = {RootNode}
    /\ bmfile \in BookmarkFiles
    /\ spc = "idle"
    /\ sfiles = EmptyMap
    /\ swalk = NoWalk
    /\ sresult = ScanOk(MakeLibrary(SettingsLibrary, EmptyMap, LoadBookmarks(bmfile)))
    /\ shist = [faults |-> {}, bm |-> bmfile]
    /\ library = sresult.lib
    /\ app = [last |-> "Scanned(Ok)", before |-> DefaultLibrary, save_settings |-> TRUE]
    /\ saves = [i \in 1..MaxSaves |-> NoTask]
    /\ bhist = NoBookmarkHistory

\* Library values: with or without a local file, a remote-API entry, a
\* configured provider and a bookmark.
Libraries ==
    LET KeyA == Local(Author1 \o <<"/">> \o ModelA)
        FileA == [model |-> KeyA.id, name |-> FileQ4, size |-> Some(10)]
    IN  { [directory |-> SettingsLibrary,
           api_src |-> [t \in src |-> APIAccess(t)],
           files |-> MapChain([e \in apis |-> APIEntry(OnlineC)],
                              [e \in locals |-> FileEntry(FileA)]),
           bookmarks |-> bms] :
          src \in {{}, {"NanoGPT"}}, apis \in {{}, {RemoteC}},
          locals \in {{}, {KeyA}}, bms \in {<<>>, <<RemoteC>>} }

\* save_bookmarks for any library value, one task at a time, over a library
\* root with one weight file of one model.
SaveInit ==
    /\ tree = TreeOf("dir", "dir", Node(<<>>, "file", 10), FALSE, FALSE, FALSE)
    /\ bmfile \in {BmMissing, BmMalformed}
    /\ spc = "idle"
    /\ sfiles = EmptyMap
    /\ swalk = NoWalk
    /\ sresult = ScanNone
    /\ shist = [faults |-> {}, bm |-> bmfile]
    /\ library \in Libraries
    /\ app = [last |-> "", before |-> DefaultLibrary, save_settings |-> FALSE]
    /\ saves = <<NoTask>>
    /\ bhist = NoBookmarkHistory

\* The bookmark variables when another specification runs.
BookmarksIdle ==
    /\ saves = <<>>
    /\ bhist = NoBookmarkHistory

BookmarksNext ==
    \/ \E id \in BookmarkIds, add \in BOOLEAN : Update_Bookmark(id, add)
    \/ \E i \in DOMAIN saves : Save_ToStringPretty(i)
    \/ \E i \in DOMAIN saves : Save_Write(i)
    \/ \E i \in DOMAIN saves : Update_SettingsSaved(i)

AppNext ==
    \/ \E id \in AppBookmarkIds, add \in BOOLEAN : Update_Bookmark(id, add)
    \/ \E i \in DOMAIN saves : Save_ToStringPretty(i)
    \/ \E i \in DOMAIN saves : Save_Write(i)
    \/ \E i \in DOMAIN saves : Update_SettingsSaved(i)
    \/ ScanNext

-----------------------------------------------------------------------------
(* Functions without side effects (core/src/model.rs): EndpointId and
   ModelOnline equality, Id::author and Id::name, the filter of
   HFModel::search, and the precision classification of File::list *)

\* The last call: the function, its arguments, the value it returned.
Call(fn, args, out) == [fn |-> fn, args |-> args, out |-> out]
NoCall == Call("none", <<>>, <<>>)

PureFrame == UNCHANGED <<dlVars, descVars, scanVars, bmVars, statusVars, searchVars>>

\* ---- EndpointId (616-629) ----

\* An equality that looks at the id alone.
EndpointEqById(a, b) == slash_id(a) = slash_id(b)

\* #[derive(PartialEq, Eq, Hash)] on EndpointId: the same variant with the
\* same fields.
EndpointEq(a, b) ==
    /\ a.tag = b.tag
    /\ a.id = b.id
    /\ a.tag = "Remote" => a.api_type = b.api_type

\* The number of entries of a HashMap after inserting under a and then
\* under b: the second insert replaces the first when the keys are equal.
KeysAfterInserts(a, b) == IF EndpointEq(a, b) THEN 1 ELSE 2

\* a == b, a map keyed by both, and slash_id() of both.
Call_EndpointId(a, b) ==
    /\ pcall' = Call("EndpointId", <<a, b>>,
                     [eq |-> EndpointEq(a, b),
                      keys |-> KeysAfterInserts(a, b),
                      ids |-> <<slash_id(a), slash_id(b)>>])
    /\ PureFrame

\* ---- impl PartialEq for ModelOnline (367-371) ----

\* ModelOnline values that differ in every field.
EqModelOnlines ==
    { [endpoint_id |-> e, cost |-> c, config |-> t, state_check |-> st] :
        e \in {Remote("NanoGPT", <<"c">>), Remote("OpenAI", <<"c">>)},
        c \in {None, Some(1)}, t \in APITypes, st \in {"Unchecked", "Up"} }

\* The equality a derive would give: every field.
ModelOnlineEqDerived(a, b) == a = b

\* fn eq(&self, other: &Self) -> bool { self.endpoint_id == other.endpoint_id }
ModelOnlineEq(a, b) == EndpointEq(a.endpoint_id, b.endpoint_id)

Call_ModelOnlineEq(a, b) ==
    /\ pcall' = Call("ModelOnline::eq", <<a, b>>, ModelOnlineEq(a, b))
    /\ PureFrame

\* ---- Id::name, Id::author (223-237) ----

\* Longest id string the model splits.
MaxLen == 4

RECURSIVE IndexOf(_, _, _)
\* Smallest i >= n with s[i] = c, or 0.
IndexOf(s, c, n) ==
    IF n > Len(s) THEN 0
    ELSE IF s[n] = c THEN n
    ELSE IndexOf(s, c, n + 1)

\* A split at the last occurrence of the delimiter (str::rsplit_once).
rsplit_once(s, c) ==
    LET i == LastIndexOf(s, c, Len(s))
    IN  IF i = 0 THEN None
        ELSE Some(<<SubSeq(s, 1, i - 1), SubSeq(s, i + 1, Len(s))>>)

\* str::split_once: the parts before and after the first occurrence of the
\* delimiter, None when it does not occur.
split_once(s, c) ==
    LET i == IndexOf(s, c, 1)
    IN  IF i = 0 THEN None
        ELSE Some(<<SubSeq(s, 1, i - 1), SubSeq(s, i + 1, Len(s))>>)

\* self.0.split_once('/').map(|(author, _name)| author).unwrap_or(&self.0)
Id_author(id) == IF split_once(id, "/") = None THEN id ELSE split_once(id, "/")[1][1]

\* self.0.split_once('/').map(|(_author, name)| name).unwrap_or(&self.0)
Id_name(id) == IF split_once(id, "/") = None THEN id ELSE split_once(id, "/")[1][2]

\* Id strings: everything over three characters up to the longest length.
IdStrings ==
    UNION { [1..n -> {"a", "b", "/"}] : n \in 0..MaxLen }

Call_Id(id) ==
    /\ pcall' = Call("Id", <<id>>, [author |-> Id_author(id), name |-> Id_name(id)])
    /\ PureFrame

\* ---- HFModel::search (169-211) ----

\* enum Gated { Bool(bool), Other(String) }, #[serde(untagged)]
GatedBool(b) == [tag |-> "Bool", value |-> b]
GatedOther(s) == [tag |-> "Other", value |-> s]

\* What the hub answers for one model: its id and its `gated` field.
Responses ==
    { [id |-> id, gated |-> g] :
        id \in {<<"a", "/", "b">>, <<"c">>},
        g \in {GatedBool(TRUE), GatedBool(FALSE), GatedOther("auto")} }

\* The answers to one search: up to two models.
ResponseLists == UNION { [1..n -> Responses] : n \in 0..2 }

\* models.retain(|model| model.gated == Gated::Bool(false));
\* Ok(models.into_iter().map(|model| Self { id: model.id.clone(), .. }).collect())
Retained(models) ==
    LET kept == SelectSeq(models, LAMBDA m : m.gated = GatedBool(FALSE))
    IN  [n \in DOMAIN kept |-> kept[n].id]

\* HFModel::search(query) for each answer of the hub: the request or the
\* decoding of the body fails (`?`), or the filtered list is returned.
Call_Search(models) ==
    /\ \/ pcall' = Call("HFModel::search", <<models>>, [kind |-> "ok", models |-> Retained(models)])
       \/ pcall' = Call("HFModel::search", <<models>>, [kind |-> "err", models |-> <<>>])
    /\ PureFrame

\* ---- File::list (423-469) ----

GGUFSuffix == <<".">> \o GGUF

\* str::ends_with
EndsWith(s, suffix) ==
    /\ Len(s) >= Len(suffix)
    /\ SubSeq(s, Len(s) - Len(suffix) + 1, Len(s)) = suffix

\* str::starts_with
StartsWith(s, prefix) ==
    /\ Len(s) >= Len(prefix)
    /\ SubSeq(s, 1, Len(prefix)) = prefix

RECURSIVE trim_end_matches(_, _)
\* str::trim_end_matches: the suffix is removed as often as it matches.
trim_end_matches(s, suffix) ==
    IF EndsWith(s, suffix)
    THEN trim_end_matches(SubSeq(s, 1, Len(s) - Len(suffix)), suffix)
    ELSE s

RECURSIVE trim_start_matches(_, _)
\* str::trim_start_matches: the prefix is removed as often as it matches.
trim_start_matches(s, prefix) ==
    IF StartsWith(s, prefix)
    THEN trim_start_matches(SubSeq(s, Len(prefix) + 1, Len(s)), prefix)
    ELSE s

\* s.rsplit(['-', '.']).next(): the part after the last '-' or '.', the
\* whole string when there is neither.
rsplit_next(s) ==
    LET i == LastIndexOf(s, "-", Len(s))
        j == LastIndexOf(s, ".", Len(s))
    IN  SubSeq(s, (IF i > j THEN i ELSE j) + 1, Len(s))

\* s.split('_').next(): the part before the first '_', the whole string when
\* there is none.
split_next(s) ==
    LET i == IndexOf(s, "_", 1)
    IN  IF i = 0 THEN s ELSE SubSeq(s, 1, i - 1)

Digits == <<"0", "1", "2", "3", "4", "5", "6", "7", "8", "9">>
IsDigit(c) == \E d \in DOMAIN Digits : Digits[d] = c
DigitValue(c) == (CHOOSE d \in DOMAIN Digits : Digits[d] = c) - 1

RECURSIVE DecimalValue(_)
DecimalValue(s) ==
    IF s = <<>> THEN 0
    ELSE 10 * DecimalValue(SubSeq(s, 1, Len(s) - 1)) + DigitValue(s[Len(s)])

\* str::parse::<u64>(): one or more decimal digits, after an optional '+';
\* None for an Err. (No name of the model reaches 2^64.)
parse(s) ==
    LET digits == IF s # <<>> /\ s[1] = "+" THEN Tail(s) ELSE s
    IN  IF digits # <<>> /\ \A n \in DOMAIN digits : IsDigit(digits[n])
        THEN Some(DecimalValue(digits))
        ELSE None

\* A classification that does not know the BF prefix.
PrecisionWithoutBF(path) ==
    LET file_stem == trim_end_matches(path, GGUFSuffix)
        variant == rsplit_next(file_stem)
    IN  parse(trim_start_matches(
                trim_start_matches(
                  trim_start_matches(split_next(variant), <<"I", "Q">>),
                  <<"Q">>),
                <<"F">>))

\* let file_stem = entry.path.trim_end_matches(".gguf");
\* let variant = file_stem.rsplit(['-', '.']).next().unwrap_or(file_stem);
\* let precision = variant.split('_').next().unwrap_or(variant)
\*     .trim_start_matches("IQ").trim_start_matches("Q")
\*     .trim_start_matches("BF").trim_start_matches("F").parse().map(Bits);
Precision(path) ==
    LET file_stem == trim_end_matches(path, GGUFSuffix)
        variant == rsplit_next(file_stem)
    IN  parse(trim_start_matches(
                trim_start_matches(
                  trim_start_matches(
                    trim_start_matches(split_next(variant), <<"I", "Q">>),
                    <<"Q">>),
                  <<"B", "F">>),
                <<"F">>))

\* Paths of the repository tree the hub answers with.
PathQ4KM == <<"m", "-", "Q", "4", "_", "K", "_", "M", ".", "g", "g", "u", "f">>
PathIQ2XS == <<"m", "-", "I", "Q", "2", "_", "X", "S", ".", "g", "g", "u", "f">>
PathBF16 == <<"m", "-", "B", "F", "1", "6", ".", "g", "g", "u", "f">>
PathF32 == <<"m", ".", "F", "3", "2", ".", "g", "g", "u", "f">>
PathDraft == <<"m", "-", "d", "r", "a", "f", "t", ".", "g", "g", "u", "f">>
PathQQ4 == <<"m", "-", "Q", "Q", "4", ".", "g", "g", "u", "f">>
PathQF16 == <<"m", "-", "Q", "F", "1", "6", "_", "K", ".", "g", "g", "u", "f">>
PathFF8 == <<"m", "-", "F", "F", "8", ".", "g", "g", "u", "f">>
PathReadme == <<"R", "E", "A", "D", "M", "E", ".", "m", "d">>

\* struct Entry { type, path, size }
Entry(type, path, size) == [type |-> type, path |-> path, size |-> size]

Entries ==
    { Entry("file", p, 1) :
        p \in {PathQ4KM, PathIQ2XS, PathBF16, PathF32, PathDraft,
               PathQQ4, PathQF16, PathFF8, PathReadme} }
    \cup {Entry("directory", PathQ4KM, 0), Entry("file", PathQ4KM, 2)}

\* The answers to one listing: up to two entries.
EntryLists == UNION { [1..n -> Entries] : n \in 0..2 }

\* A push that puts the file in front of those already in the bucket.
PushFront(files, bits, file) ==
    [b \in DOMAIN files \cup {bits} |->
        IF b = bits
        THEN (IF bits \in DOMAIN files THEN <<file>> \o files[bits] ELSE <<file>>)
        ELSE files[b]]

\* files.entry(precision).or_default().push(file)
Push(files, bits, file) ==
    [b \in DOMAIN files \cup {bits} |->
        IF b = bits
        THEN (IF bits \in DOMAIN files THEN Append(files[bits], file) ELSE <<file>>)
        ELSE files[b]]

RECURSIVE ListLoop(_, _, _, _)
\* for entry in entries { .. }: the loop of File::list from entry n on.
ListLoop(id, entries, n, files) ==
    IF n > Len(entries) THEN files
    ELSE LET entry == entries[n]
         IN  IF entry.type # "file" \/ ~EndsWith(entry.path, GGUFSuffix)
             THEN ListLoop(id, entries, n + 1, files)
             ELSE IF Precision(entry.path) = None
             THEN ListLoop(id, entries, n + 1, files)
             ELSE ListLoop(id, entries, n + 1,
                           Push(files, Precision(entry.path)[1],
                                [model |-> id, name |-> entry.path,
                                 size |-> Some(entry.size)]))

RECURSIVE BTreeKeys(_)
\* type Files = BTreeMap<Bits, Vec<File>>: the keys in the order the map
\* iterates, ascending by Bits' derived Ord.
BTreeKeys(files) ==
    IF DOMAIN files = {} THEN <<>>
    ELSE LET least == CHOOSE b \in DOMAIN files : \A c \in DOMAIN files : b <= c
         IN  <<least>> \o BTreeKeys([b \in DOMAIN files \ {least} |-> files[b]])

\* File::list(id) for each answer of the hub: the request, its status or the
\* decoding of the body fails (`?`), or the grouped files are returned.
Call_FileList(id, entries) ==
    /\ \/ pcall' = Call("File::list", <<id, entries>>,
                        [kind |-> "ok", files |-> ListLoop(id, entries, 1, EmptyMap)])
       \/ pcall' = Call("File::list", <<id, entries>>, [kind |-> "err", files |-> EmptyMap])
    /\ PureFrame

\* ---- Details::fetch (248-284) ----

\* A match that accepts either variant and takes its id.
FetchIdOfAny(e) == Some(slash_id(e))

\* The match that opens Details::fetch: the id of a Local endpoint; for any
\* other endpoint the arm is unreachable!(), here None.
FetchId(e) == IF e.tag = "Local" THEN Some(e.id) ELSE None

\* Details::fetch(id), polled to its end. `requests` are the ids a GET was
\* sent for; send, error_for_status and json each end the call with an Err.
Call_DetailsFetch(e) ==
    /\ LET d == FetchId(e) IN
       IF d = None
       THEN pcall' = Call("Details::fetch", <<e>>, [kind |-> "panic", requests |-> <<>>])
       ELSE \E kind \in {"ok", "err"} :
                pcall' = Call("Details::fetch", <<e>>, [kind |-> kind, requests |-> d])
    /\ PureFrame

\* ---- Model::list (105-140) ----

\* api_src values: a provider per kind, with its access data; the NanoGPT
\* provider with or without the openai_compat configuration.
NoConfig(t) == [kind |-> t, openai_compat |-> None]
ApiSources ==
    { EmptyMap,
      [k \in {"NanoGPT"} |-> APIAccess(k)],
      [k \in {"NanoGPT"} |-> NoConfig(k)],
      [k \in {"OpenAI"} |-> APIAccess(k)],
      [k \in {"NanoGPT", "OpenAI"} |-> APIAccess(k)] }

\* The orders in which the HashMap's iterator can yield the providers.
VisitOrders(src) ==
    { o \in UNION { [1..n -> DOMAIN src] : n \in {Cardinality(DOMAIN src)} } :
        \A i, j \in DOMAIN o : i # j => o[i] # o[j] }

\* What get_models(true) answers: an Err, or a list of models.
ListedModel(id, pricing) == [id |-> id, pricing |-> pricing]
GetModelsAnswers ==
    { [kind |-> "err", data |-> <<>>],
      [kind |-> "ok", data |-> <<>>],
      [kind |-> "ok", data |-> <<ListedModel(<<"c">>, None)>>],
      [kind |-> "ok", data |-> <<ListedModel(<<"c">>, None), ListedModel(<<"d">>, Some(1))>>] }

ListOutcome(kind, at, models) == [kind |-> kind, at |-> at, models |-> models]

\* for m in models.data { resp.insert(Remote { NanoGPT, m.id }, Model::API(..)) }
RECURSIVE InsertModels(_, _, _, _)
InsertModels(resp, api, data, n) ==
    IF n > Len(data) THEN resp
    ELSE InsertModels(
             MapPut(resp, Remote("NanoGPT", data[n].id),
                    [endpoint_id |-> Remote("NanoGPT", data[n].id),
                     cost |-> data[n].pricing,
                     config |-> api.kind,
                     state_check |-> StatusDefault]),
             api, data, n + 1)

\* A provider without an adapter that is passed over.
UnsupportedSkipped(rest) == rest

\* The arm `_ => todo!()`: the call panics, the providers left are not visited.
Unsupported(rest) == ListOutcome("panic", "todo", EmptyMap)

\* The loop over api_src, from the n-th provider of the iteration order on.
RECURSIVE ListProviders(_, _, _, _, _)
ListProviders(src, order, answer, n, resp) ==
    IF n > Len(order) THEN ListOutcome("ok", "", resp)
    ELSE LET api == src[order[n]] IN
         IF api.kind = "NanoGPT"
         THEN IF api.openai_compat = None
              THEN ListOutcome("panic", "unwrap", EmptyMap)
              ELSE IF answer.kind = "err"
                   THEN ListOutcome("err", "get_models", EmptyMap)
                   ELSE ListProviders(src, order, answer, n + 1,
                                      InsertModels(resp, api, answer.data, 1))
         ELSE Unsupported(ListProviders(src, order, answer, n + 1, resp))

\* Model::list(library), polled to its end.
Call_ModelList(src, order, answer) ==
    /\ pcall' = Call("Model::list", <<src, order, answer>>,
                     ListProviders(src, order, answer, 1, EmptyMap))
    /\ PureFrame

PureInit == pcall = NoCall

\* The pure variables when another specification runs.
PureIdle == pcall = NoCall

PureNext ==
    \/ \E a \in DescEndpoints, b \in DescEndpoints : Call_EndpointId(a, b)
    \/ \E a \in EqModelOnlines, b \in EqModelOnlines : Call_ModelOnlineEq(a, b)
    \/ \E id \in IdStrings : Call_Id(id)
    \/ \E models \in ResponseLists : Call_Search(models)
    \/ \E entries \in EntryLists : Call_FileList(<<"a", "/", "b">>, entries)
    \/ \E e \in DescEndpoints : Call_DetailsFetch(e)
    \/ \E src \in ApiSources, answer \in GetModelsAnswers :
           \E order \in VisitOrders(src) : Call_ModelList(src, order, answer)

-----------------------------------------------------------------------------
(* Library::status_check and the StatusCheck flag of a ModelOnline *)

\* The endpoints whose flag is followed.
ProbeIds == {RemoteC, Remote("OpenAI", <<"d">>)}

\* What a health probe of the endpoint's provider would meet.
Reachability == {"up", "down", "timeout"}

NoProbe == [pc |-> "idle", id |-> RemoteC, net |-> "up", result |-> NoResult]

NoStatusHistory == [seen |-> {}]

StatusFrame == UNCHANGED <<dlVars, descVars, scanVars, bmVars, pureVars, searchVars>>

\* A status check that moves the flag one state further each time it runs.
StatusCheckAdvancing(flag) ==
    CASE flag = "Unchecked" -> "CheckingStatus"
      [] flag = "CheckingStatus" -> "Up"
      [] flag = "Up" -> "Down"
      [] OTHER -> "CheckingStatus"

\* The body of Library::status_check: it takes the library and the id and
\* returns Ok(()) at once; no statement reads or writes a flag.
StatusCheckBody(flag) == flag

\* A caller creates the future status_check(id) and hands it to the runtime.
StatusCheck_Call(i, id, net) ==
    /\ probes[i].pc = "idle"
    /\ probes' = [probes EXCEPT ![i] = [pc |-> "running", id |-> id, net |-> net,
                                         result |-> NoResult]]
    /\ UNCHANGED <<flags, phist>>
    /\ StatusFrame

\* The future is polled: the body runs to its end, there is no await in it.
StatusCheck_Return(i) ==
    /\ probes[i].pc = "running"
    /\ flags' = [flags EXCEPT ![probes[i].id] = StatusCheckBody(@)]
    /\ probes' = [probes EXCEPT ![i].pc = "returned", ![i].result = Ok(<<>>)]
    /\ UNCHANGED phist
    /\ StatusFrame

\* Icebreaker::update for Message::StatusUpdated: the catch-all arm.
Update_StatusUpdated(i) ==
    /\ probes[i].pc = "returned"
    /\ probes' = [probes EXCEPT ![i] = NoProbe]
    /\ UNCHANGED <<flags, phist>>
    /\ StatusFrame

\* Another holder of the ModelOnline loads the flag from the shared cell.
StatusRead(id) ==
    /\ phist' = [phist EXCEPT !.seen = @ \cup {flags[id]}]
    /\ UNCHANGED <<flags, probes>>
    /\ StatusFrame

StatusInit ==
    /\ flags = [id \in ProbeIds |-> StatusDefault]
    /\ probes = [i \in 1..MaxProbes |-> NoProbe]
    /\ phist = NoStatusHistory

\* The status variables when another specification runs.
StatusIdle ==
    /\ flags = [id \in ProbeIds |-> StatusDefault]
    /\ probes = <<>>
    /\ phist = NoStatusHistory

StatusNext ==
    \/ \E i \in 1..MaxProbes, id \in ProbeIds, net \in Reachability :
           StatusCheck_Call(i, id, net)
    \/ \E i \in 1..MaxProbes : StatusCheck_Return(i)
    \/ \E i \in 1..MaxProbes : Update_StatusUpdated(i)
    \/ \E id \in ProbeIds : StatusRead(id)

-----------------------------------------------------------------------------
(* The search screen: Search::new and Search::update (src/screen/search.rs)
   and the arms of Icebreaker::update that create it and probe its models *)

\* The texts of the search field.
Queries == {"", "a", "b"}

\* enum Model { HF(HFModel), API(ModelOnline) }, by its endpoint id
\* (Model::endpoint_id: Local(id) for a hub model, the endpoint of an API model).
HubModel == Local(Author1 \o <<"/">> \o ModelA)
OtherHubModel == Local(<<"a", "/", "b">>)
ModelKind(id) == IF id.tag = "Local" THEN "HF" ELSE "API"

\* The lists a listing or a search hands to Message::ModelsListed(Ok(..)).
ListedModelLists ==
    { <<>>, <<HubModel>>, <<HubModel, OtherHubModel>>, <<RemoteC>>, <<HubModel, RemoteC>> }

\* models.into_iter().map(|model| (model.endpoint_id(), model)).collect()
ModelsOf(list) == [id \in { list[n] : n \in DOMAIN list } |-> ModelKind(id)]

\* The ids a Select or a CheckStatus can name.
SearchIds == {HubModel, OtherHubModel, RemoteC}

\* enum Mode
ModeSearch == [tag |-> "Search", model |-> None, details |-> None, files |-> None]
ModeHFDetails(id, details, files) ==
    [tag |-> "HFDetails", model |-> Some(id), details |-> details, files |-> files]
ModeAPIDetails(id) == [tag |-> "APIDetails", model |-> Some(id), details |-> None, files |-> None]

\* Search::new: the screen's first state.
NewSearch ==
    [models |-> EmptyMap, search |-> "", search_temperature |-> 0,
     is_searching |-> TRUE, mode |-> ModeSearch]

\* No listing and no search in flight.
NoRequests == [list |-> 0, search |-> 0]

\* History of the screen in place: whether a SearchChanged reached it, the
\* text of the last search it issued with the number of timers that were
\* still pending then, whether a SearchCooled found its counter at 0; and of
\* the application: the SearchChanged messages so far and the last
\* CheckStatus batch, with the probe tasks it pushed.
NoSearchHistory ==
    [changed |-> FALSE, issued |-> None, pending |-> 0, cooled_at_zero |-> FALSE,
     typed |-> 0,
     batch |-> [ran |-> FALSE, with_bookmarks |-> FALSE, first |-> {}, tasks |-> <<>>,
                models |-> {}]]

SearchFrame == UNCHANGED <<dlVars, descVars, scanVars, bmVars, pureVars, statusVars>>

\* Message::OpenSearch => self.open_search(): a new Search replaces the
\* screen in place and its listing is started. Timers, requests and fetches
\* of the screen that is replaced stay in flight; their messages will reach
\* the new screen. (The scan open_search also starts is followed in SpecScan.)
OpenSearch ==
    /\ requests.list < MaxRequests
    /\ search' = NewSearch
    /\ requests' = [requests EXCEPT !.list = @ + 1]
    /\ qhist' = [qhist EXCEPT !.changed = FALSE, !.issued = None, !.pending = 0,
                              !.cooled_at_zero = FALSE]
    /\ UNCHANGED <<timers, fetches>>
    /\ SearchFrame

\* Message::ModelsListed(Ok(models)) => { self.models = ..; self.is_searching = false }
\* Message::ModelsListed(Err(error)) => log::error!("{error}")
\* for the result of a listing in flight.
ModelsListed(fn, ok, list) ==
    /\ requests[fn] > 0
    /\ requests' = [requests EXCEPT ![fn] = @ - 1]
    /\ search' = IF ok
                 THEN [search EXCEPT !.models = ModelsOf(list), !.is_searching = FALSE]
                 ELSE search
    /\ UNCHANGED <<timers, fetches, qhist>>
    /\ SearchFrame

\* Message::SearchChanged(search): the text is stored, the counter goes up
\* and a one-second timer is started.
SearchChanged(text) ==
    /\ qhist.typed < MaxChanges
    /\ search' = [search EXCEPT !.search = text, !.search_temperature = @ + 1]
    /\ timers' = timers + 1
    /\ qhist' = [qhist EXCEPT !.changed = TRUE, !.typed = @ + 1]
    /\ UNCHANGED <<requests, fetches>>
    /\ SearchFrame

\* A subtraction that goes below 0.
MinusOne(t) == t - 1

\* self.search_temperature.saturating_sub(1)
saturating_sub(t) == IF t = 0 THEN 0 ELSE t - 1

\* A timer fires and Message::SearchCooled is delivered: the counter goes
\* down, and at 0 the screen starts Model::search(self.search.clone()).
SearchCooled ==
    /\ timers > 0
    /\ timers' = timers - 1
    /\ LET temperature == saturating_sub(search.search_temperature) IN
       IF temperature = 0
       THEN /\ search' = [search EXCEPT !.search_temperature = temperature,
                                        !.is_searching = TRUE]
            /\ requests' = [requests EXCEPT !.search = @ + 1]
            /\ qhist' = [qhist EXCEPT !.issued = Some(search.search),
                                      !.pending = timers - 1,
                                      !.cooled_at_zero = @ \/ search.search_temperature = 0]
       ELSE /\ search' = [search EXCEPT !.search_temperature = temperature]
            /\ UNCHANGED <<requests, qhist>>
    /\ UNCHANGED fetches
    /\ SearchFrame

\* Message::Select(id): a hub model opens the details mode and starts
\* Details::fetch and File::list for it, an API model opens its own mode,
\* an id that is not in the map is logged.
Select(id) ==
    /\ IF id \in DOMAIN search.models
       THEN IF search.models[id] = "HF"
            THEN /\ search' = [search EXCEPT !.mode = ModeHFDetails(id, None, None)]
                 /\ fetches' = fetches \cup {[what |-> "details", id |-> id],
                                             [what |-> "files", id |-> id]}
            ELSE /\ search' = [search EXCEPT !.mode = ModeAPIDetails(id)]
                 /\ UNCHANGED fetches
       ELSE UNCHANGED <<search, fetches>>
    /\ UNCHANGED <<timers, requests, qhist>>
    /\ SearchFrame

\* A guard that looks at the mode alone.
InDetailsMode(mode, id) == mode.tag = "HFDetails"

\* Mode::HFDetails { model, .. } if model == &new_model
ShowsModel(mode, id) == mode.tag = "HFDetails" /\ mode.model = Some(id)

\* Message::HFDetailsFetched(new_model, result) for a Details::fetch in
\* flight: an Ok is stored when the mode shows that model, an Err is logged.
\* The details stored are those of the model they were fetched for.
HFDetailsFetched(id, ok) ==
    /\ [what |-> "details", id |-> id] \in fetches
    /\ fetches' = fetches \ {[what |-> "details", id |-> id]}
    /\ search' = IF ok /\ ShowsModel(search.mode, id)
                 THEN [search EXCEPT !.mode.details = Some(id)]
                 ELSE search
    /\ UNCHANGED <<timers, requests, qhist>>
    /\ SearchFrame

\* Message::FilesListed(new_model, result) for a File::list in flight.
FilesListed(id, ok) ==
    /\ [what |-> "files", id |-> id] \in fetches
    /\ fetches' = fetches \ {[what |-> "files", id |-> id]}
    /\ search' = IF ok /\ ShowsModel(search.mode, id)
                 THEN [search EXCEPT !.mode.files = Some(id)]
                 ELSE search
    /\ UNCHANGED <<timers, requests, qhist>>
    /\ SearchFrame

\* Message::Back => self.mode = Mode::Search
Back ==
    /\ search' = [search EXCEPT !.mode = ModeSearch]
    /\ UNCHANGED <<timers, requests, fetches, qhist>>
    /\ SearchFrame

\* A lookup that finds every id.
InAnyMap(models, id) == TRUE

\* search.models.get(&id) is Some
InModels(models, id) == id \in DOMAIN models

\* for id in self.library.bookmarks.iter() { scheduled_ids.insert(id.clone()) }
\* for (id, _) in search.models.iter().take(first_n) { scheduled_ids.insert(..) }
\* `first` are the ids the map's iterator yields first.
ScheduledIds(with_bookmarks, first) ==
    (IF with_bookmarks
     THEN { library.bookmarks[n] : n \in DOMAIN library.bookmarks }
     ELSE {})
    \cup first

\* search::Message::CheckStatus { bookmarks, first_n }: one probe task for
\* every scheduled id that is in the screen's model map, in the order the
\* HashSet yields the ids.
CheckStatus(with_bookmarks, first) ==
    /\ first \subseteq DOMAIN search.models
    /\ \/ first = DOMAIN search.models
       \/ Cardinality(first) \in 0..MaxFirst
    /\ LET scheduled == ScheduledIds(with_bookmarks, first)
           probed == { id \in scheduled : InModels(search.models, id) }
       IN  \E tasks \in [1..Cardinality(probed) -> probed] :
               /\ { tasks[n] : n \in DOMAIN tasks } = probed
               /\ qhist' = [qhist EXCEPT !.batch = [ran |-> TRUE,
                                                    with_bookmarks |-> with_bookmarks,
                                                    first |-> first, tasks |-> tasks,
                                                    models |-> DOMAIN search.models]]
    /\ UNCHANGED <<search, timers, requests, fetches>>
    /\ SearchFrame

\* The application showing a search screen it has just opened, its listing
\* in flight, over a library scanned from an empty root and any bookmark file.
SearchInit ==
    /\ tree = {RootNode}
    /\ bmfile \in BookmarkFiles
    /\ spc = "idle"
    /\ sfiles = EmptyMap
    /\ swalk = NoWalk
    /\ sresult = ScanOk(MakeLibrary(SettingsLibrary, EmptyMap, LoadBookmarks(bmfile)))
    /\ shist = [faults |-> {}, bm |-> bmfile]
    /\ library = sresult.lib
    /\ app = [last |-> "Scanned(Ok)", before |-> DefaultLibrary, save_settings |-> TRUE]
    /\ search = NewSearch
    /\ timers = 0
    /\ requests = [NoRequests EXCEPT !.list = 1]
    /\ fetches = {}
    /\ qhist = NoSearchHistory

\* The same, with no bookmark file: the debounce steps do not read the library.
DebounceInit == SearchInit /\ bmfile = BmMissing

\* The search variables when another specification runs.
SearchIdle ==
    /\ search = NewSearch
    /\ timers = 0
    /\ requests = NoRequests
    /\ fetches = {}
    /\ qhist = NoSearchHistory

\* The screen is opened and its listing answers.
ListingNext ==
    \/ OpenSearch
    \/ \E ok \in BOOLEAN, list \in ListedModelLists : ModelsListed("list", ok, list)

\* The steps of the debounce and of the listings; Model::search answers
\* Ok(vec![]).
DebounceNext ==
    \/ ListingNext
    \/ ModelsListed("search", TRUE, <<>>)
    \/ \E text \in Queries : SearchChanged(text)
    \/ SearchCooled

\* The steps of a user who selects models and asks for status checks.
SearchNext ==
    \/ ListingNext
    \/ \E id \in SearchIds : Select(id)
    \/ \E id \in SearchIds, ok \in BOOLEAN : HFDetailsFetched(id, ok)
    \/ \E id \in SearchIds, ok \in BOOLEAN : FilesListed(id, ok)
    \/ Back
    \/ \E with_bookmarks \in BOOLEAN, first \in SUBSET SearchIds :
           CheckStatus(with_bookmarks, first)

-----------------------------------------------------------------------------
(* The specifications *)

\* The descriptor variables when another specification runs.
DescriptorIdle ==
    /\ jfs = [p \in JsonPaths |-> NoDoc]
    /\ jcall = [entry |-> NoEntry, before |-> jfs, wrote |-> FALSE, result |-> NoResult]
    /\ jlist = NoList

\* The scan variables when another specification runs.
ScanIdle ==
    /\ tree = {}
    /\ bmfile = BmMissing
    /\ spc = "off"
    /\ sfiles = EmptyMap
    /\ swalk = NoWalk
    /\ sresult = ScanNone
    /\ shist = [faults |-> {}, bm |-> bmfile]
    /\ library = DefaultLibrary
    /\ app = [last |-> "", before |-> DefaultLibrary, save_settings |-> FALSE]

SpecDownloadInit == DownloadInit /\ DescriptorIdle /\ ScanIdle /\ BookmarksIdle /\ PureIdle /\ StatusIdle /\ SearchIdle
SpecDownload == SpecDownloadInit /\ [][DownloadNext]_vars

SpecDescriptorInit == DownloadIdle /\ DescriptorInit /\ ScanIdle /\ BookmarksIdle /\ PureIdle /\ StatusIdle /\ SearchIdle
SpecDescriptor == SpecDescriptorInit /\ [][DescriptorNext]_vars

SpecInstalledInit ==
    /\ DownloadIdle /\ InstalledInit /\ ScanIdle /\ BookmarksIdle
    /\ PureIdle /\ StatusIdle /\ SearchIdle
SpecInstalled == SpecInstalledInit /\ [][InstalledNext]_vars

SpecScanInit == DownloadIdle /\ DescriptorIdle /\ ScanInit /\ BookmarksIdle /\ PureIdle /\ StatusIdle /\ SearchIdle
SpecScan == SpecScanInit /\ [][ScanNext]_vars

SpecBookmarksInit == DownloadIdle /\ DescriptorIdle /\ BookmarksInit /\ PureIdle /\ StatusIdle /\ SearchIdle
SpecBookmarks == SpecBookmarksInit /\ [][BookmarksNext]_vars

SpecAppInit == DownloadIdle /\ DescriptorIdle /\ AppInit /\ PureIdle /\ StatusIdle /\ SearchIdle
SpecApp == SpecAppInit /\ [][AppNext]_vars

SpecSaveInit == DownloadIdle /\ DescriptorIdle /\ SaveInit /\ PureIdle /\ StatusIdle /\ SearchIdle
SpecSave == SpecSaveInit /\ [][AppNext]_vars

SpecPureInit == DownloadIdle /\ DescriptorIdle /\ ScanIdle /\ BookmarksIdle /\ PureInit /\ StatusIdle /\ SearchIdle
SpecPure == SpecPureInit /\ [][PureNext]_vars

SpecStatusInit ==
    /\ DownloadIdle /\ DescriptorIdle /\ ScanIdle /\ BookmarksIdle /\ PureIdle
    /\ StatusInit /\ SearchIdle
SpecStatus == SpecStatusInit /\ [][StatusNext]_vars

SpecSearchInit ==
    DownloadIdle /\ DescriptorIdle /\ BookmarksIdle /\ PureIdle /\ StatusIdle /\ SearchInit
SpecSearch == SpecSearchInit /\ [][SearchNext]_vars

\* The debounce alone, with every timer firing in the end: a timer is a
\* tokio sleep of one second whose message the runtime delivers.
SpecDebounceInit ==
    DownloadIdle /\ DescriptorIdle /\ BookmarksIdle /\ PureIdle /\ StatusIdle /\ DebounceInit
SpecDebounce == SpecDebounceInit /\ [][DebounceNext]_vars /\ WF_vars(SearchCooled)

-----------------------------------------------------------------------------
(* Claims about File::download, checked under SpecDownload *)

\* The destination file was there when the call started, with the recorded
\* size or with no size recorded.
PresentAtCall ==
    /\ Exists(dpre.dest)
    /\ (dfile.size = None \/ dfile.size = Some(dpre.dest.size))

\* The destination file was there when the call started, with another size
\* than the recorded one.
StaleAtCall ==
    /\ Exists(dpre.dest)
    /\ dfile.size # None
    /\ dfile.size # Some(dpre.dest.size)

ReturnedOk == dpc = "idle" /\ dresult.kind = "ok"

\* C1: a call of File::download for a file that is present at the destination
\* with the expected size (or with no size recorded) makes no network
\* request and no legacy copy, removes and renames nothing, leaves the
\* destination file as it was, and when it returns Ok it returns the
\* destination path, the same path as the call before it for the same file;
\* the only errors it can return are those of create_dir_all, try_exists and
\* metadata.
C1_PresentFileNotFetchedAgain ==
    PresentAtCall =>
        /\ ~Did("request") /\ ~Did("copy")
        /\ ~Did("remove_file") /\ ~Did("remove_old") /\ ~Did("rename")
        /\ dfs[ModelPath(dfile)] = dpre.dest
        /\ dfs[OldPath(dfile)] = dpre.old
        /\ dresult.kind = "ok" => dresult.path = ModelPath(dfile)
        /\ dresult.kind = "err" => dresult.at \in {"create_dir_all", "try_exists", "metadata"}
        /\ ( /\ dresult.kind = "ok"
             /\ dprev.result.kind = "ok"
             /\ dprev.file.model = dfile.model
             /\ dprev.file.name = dfile.name ) => dresult.path = dprev.result.path

\* C1 witness: two calls in a row for the same file have returned Ok, the
\* second one having found the file present with the expected size.
C1_Witness ==
    /\ ReturnedOk
    /\ PresentAtCall
    /\ dfile.size # None
    /\ dprev.file = dfile
    /\ dprev.result = Ok(ModelPath(dfile))
    /\ dresult = dprev.result
    /\ DidOk("metadata")

\* C2 (the claim as stated): a call that found the destination with a size
\* other than the expected one and returned Ok has removed it and left a
\* destination file of the expected size.
C2_RefetchedFileHasExpectedSize ==
    (ReturnedOk /\ StaleAtCall) =>
        /\ DidOk("remove_file")
        /\ Exists(dfs[ModelPath(dfile)])
        /\ dfile.size = Some(dfs[ModelPath(dfile)].size)

\* C3 (the claim as stated): a call that found no destination file and a
\* legacy file, and returned Ok, ends with the file at the destination, no
\* file at the legacy path and no network request made.
C3_LegacyFileMoved ==
    (ReturnedOk /\ ~Exists(dpre.dest) /\ Exists(dpre.old)) =>
        /\ dfs[ModelPath(dfile)] = dpre.old
        /\ ~Exists(dfs[OldPath(dfile)])
        /\ ~Did("request")

-----------------------------------------------------------------------------
(* Claims about FileAndAPI::download, checked under SpecDescriptor *)

\* The last call was made for a remote-API entry.
ApiCall == jcall.entry.api # None

\* `name` is `id` with every '/' replaced by '_', followed by ".json".
IsSanitizedJsonName(name, id) ==
    /\ Len(name) = Len(id) + 5
    /\ \A i \in 1..Len(id) : name[i] = (IF id[i] = "/" THEN "_" ELSE id[i])
    /\ SubSeq(name, Len(id) + 1, Len(name)) = <<".", "j", "s", "o", "n">>

\* C5: FileAndAPI::download for a remote-API entry touches no file but the
\* descriptor <root>/<id with every '/' replaced by '_'>.json; it writes the
\* entry's descriptor there only when no such file exists, leaves an existing
\* file's content as it is, and returns that path in both cases (an Err is
\* returned only when the write fails, and then nothing is written).
C5_DescriptorWrittenOnlyWhenAbsent ==
    ApiCall =>
        LET m == jcall.entry.api[1]
            p == jcall.result.path
            q == JsonPath(m)
        IN  /\ jcall.result.kind = "ok" =>
                  /\ p.root = "lib" /\ p.dir = <<>>
                  /\ IsSanitizedJsonName(p.name, m.endpoint_id.id)
            /\ \A r \in JsonPaths \ {q} : jfs[r] = jcall.before[r]
            /\ jcall.before[q] # NoDoc =>
                  /\ jfs[q] = jcall.before[q]
                  /\ ~jcall.wrote
                  /\ jcall.result.kind = "ok"
            /\ jcall.before[q] = NoDoc =>
                  \/ /\ jcall.result.kind = "ok"
                     /\ jfs[q] = [doc |-> "ModelOnline", value |-> Some(m)]
                  \/ /\ jcall.result = Err("write")
                     /\ jfs[q] = NoDoc

\* C5 witness: the entry's descriptor file existed with another content (the
\* descriptor of another model with the same sanitized id); the call returned
\* its path and the content is still the other one.
C5_Witness ==
    /\ ApiCall
    /\ jcall.result = Ok(JsonPath(jcall.entry.api[1]))
    /\ jcall.before[jcall.result.path].doc = "ModelOnline"
    /\ jcall.before[jcall.result.path] # DescriptorJson(jcall.entry.api[1])
    /\ jfs[jcall.result.path] = jcall.before[jcall.result.path]

-----------------------------------------------------------------------------
(* Claims about Library::scan and Message::Scanned, checked under SpecScan *)

ScanReturnedOk == spc = "returned" /\ sresult.kind = "ok"

\* The regular files with the weight-file extension at depth
\* author directory / model directory / file.
WeightFilesAtDepth3 ==
    { e \in tree :
        /\ Len(e.path) = 3
        /\ e.kind = "file"
        /\ Extension(e.path[3]) = Some(<<"g", "g", "u", "f">>)
        /\ \E a \in tree : a.path = <<e.path[1]>> /\ a.kind = "dir"
        /\ \E d \in tree : d.path = <<e.path[1], e.path[2]>> /\ d.kind = "dir" }

\* C6 (the claim as stated): after a successful scan every weight file at
\* depth author/model/file is in the registry as a File entry with its name
\* and size, under Local(author/model).
C6_NoWeightFileLost ==
    ScanReturnedOk =>
        \A e \in WeightFilesAtDepth3 :
            \E k \in DOMAIN sresult.lib.files :
                /\ k = Local(e.path[1] \o <<"/">> \o e.path[2])
                /\ sresult.lib.files[k].tag = "File"
                /\ sresult.lib.files[k].value.name = e.path[3]
                /\ sresult.lib.files[k].value.size = Some(e.size)

\* The library root of the scenario: author1/modelA/modelA-Q4_K_M.gguf of 10
\* bytes and nothing else.
ScenarioTree ==
    { [path |-> <<>>, kind |-> "dir", size |-> 0],
      [path |-> <<Author1>>, kind |-> "dir", size |-> 1],
      [path |-> <<Author1, ModelA>>, kind |-> "dir", size |-> 1],
      [path |-> <<Author1, ModelA, FileQ4>>, kind |-> "file", size |-> 10] }

ScenarioKey ==
    [tag |-> "Local", api_type |-> "", id |-> <<"a", "u", "t", "h", "o", "r", "1", "/", "m", "o", "d", "e", "l", "A">>]

\* C7: a successful scan of the scenario's library root with the bookmark
\* file missing yields a registry whose files map has exactly one entry,
\* keyed Local(Id("author1/modelA")), holding File { model: author1/modelA,
\* name: modelA-Q4_K_M.gguf, size: Some(10) }, with empty bookmarks and empty
\* api_src.
C7_ScenarioYieldsOneEntry ==
    (ScanReturnedOk /\ tree = ScenarioTree /\ bmfile = BmMissing) =>
        /\ DOMAIN sresult.lib.files = {ScenarioKey}
        /\ sresult.lib.files[ScenarioKey] =
               [tag |-> "File",
                value |-> [model |-> <<"a", "u", "t", "h", "o", "r", "1", "/", "m", "o", "d", "e", "l", "A">>,
                           name |-> <<"m", "o", "d", "e", "l", "A", "-", "Q", "4", "_", "K", "_", "M", ".", "g", "g", "u", "f">>,
                           size |-> <<10>>]]
        /\ sresult.lib.bookmarks = <<>>
        /\ DOMAIN sresult.lib.api_src = {}

\* C7 witness: the scenario's scan has returned Ok.
C7_Witness ==
    /\ ScanReturnedOk
    /\ tree = ScenarioTree
    /\ bmfile = BmMissing
    /\ DOMAIN sresult.lib.files # {}

\* The bookmark file is missing, unreadable or holds malformed JSON.
BookmarkFileUnusable == bmfile.state # "readable" \/ bmfile.text = "malformed"

\* C8: scan never fails because of the bookmark file: a scan on which no
\* operation of the directory walk failed returns Ok, whatever the bookmark
\* file is (an Err always names an operation of the walk); and when the
\* bookmark file is missing, unreadable or malformed the library returned has
\* an empty api_src, no API entry, empty bookmarks, and as files exactly the
\* files the walk catalogued.
C8_BookmarkFileNeverFailsScan ==
    /\ (spc = "returned" /\ shist.faults = {}) => sresult.kind = "ok"
    /\ (spc = "returned" /\ sresult.kind = "err") => sresult.at \in shist.faults
    /\ (ScanReturnedOk /\ BookmarkFileUnusable) =>
           /\ DOMAIN sresult.lib.api_src = {}
           /\ sresult.lib.bookmarks = <<>>
           /\ \A k \in DOMAIN sresult.lib.files : sresult.lib.files[k].tag = "File"
           /\ sresult.lib.files = sfiles

\* C8 witness: a scan with a malformed bookmark file has returned Ok with the
\* files it catalogued.
C8_Witness ==
    /\ ScanReturnedOk
    /\ bmfile.text = "malformed"
    /\ DOMAIN sfiles # {}
    /\ sresult.lib.files = sfiles

\* C9: the bookmark file is, at every point of a scan and after it (whether
\* it returned Ok or Err), what it was when the scan started.
C9_ScanLeavesBookmarkFile == bmfile = shist.bm

\* C9 witness: scans have returned over a bookmark file that could not be
\* loaded, one with Ok and, before it, one that made the handler see an Err.
C9_Witness ==
    /\ ScanReturnedOk
    /\ bmfile = BmMissing
    /\ shist.bm = BmMissing
    /\ app.last = "Scanned(Err)"

\* C10: a scan on which a filesystem operation of the walk failed (the
\* library root, an author directory, a model directory, an entry's type or
\* metadata) returns Err naming that operation and no library; a scan that
\* returns Ok had no such failure; and after the application handled
\* Scanned(Err) its library is the one it held before.
C10_ScanErrorsSurface ==
    /\ (spc = "returned" /\ shist.faults # {}) =>
           /\ sresult.kind = "err"
           /\ sresult.at \in shist.faults
           /\ sresult.lib = DefaultLibrary
    /\ sresult.kind = "ok" => shist.faults = {}
    /\ app.last = "Scanned(Err)" => library = app.before

\* C10 witness: after a successful scan filled the library, a scan failed on
\* an entry's metadata and the handler kept the library.
C10_Witness ==
    /\ spc = "idle"
    /\ app.last = "Scanned(Err)"
    /\ sresult = ScanErr("metadata")
    /\ "metadata" \in shist.faults
    /\ DOMAIN library.files # {}
    /\ library = app.before

-----------------------------------------------------------------------------
(* Claims about Library::save_bookmarks and the bookmark file, checked under
   SpecSave, SpecApp and SpecBookmarks *)

\* The keys of the API entries of a library.
ApiKeys(lib) == { k \in DOMAIN lib.files : lib.files[k].tag = "API" }

\* C11: once a save_bookmarks has written, and until the next write, the
\* bookmark file is JSON text holding the api_src of the library the task was
\* given, its bookmarks list, and as `apis` exactly its API entries, each
\* under its key; no local file is in it; and the library of a task that
\* returned Ok is the library it was given.
C11_SavedFileHoldsApiSubset ==
    /\ bhist.written # None =>
         LET lib == bhist.written[1]
         IN  /\ bmfile.state = "readable"
             /\ bmfile.text = "json"
             /\ bmfile.value.api_src = lib.api_src
             /\ bmfile.value.bookmarks = lib.bookmarks
             /\ DOMAIN bmfile.value.apis = ApiKeys(lib)
             /\ \A k \in ApiKeys(lib) : bmfile.value.apis[k] = lib.files[k].value
             /\ \A k \in DOMAIN lib.files :
                    lib.files[k].tag = "File" => k \notin DOMAIN bmfile.value.apis
    /\ \A i \in DOMAIN saves :
         (saves[i].pc = "returned" /\ saves[i].result = "ok") =>
             saves[i].lib = saves[i].snap

\* C11 witness: a save of a library with a local file, a provider and a
\* bookmark has returned Ok, and the file holds the provider and the
\* bookmark.
C11_Witness ==
    /\ saves[1].pc = "returned"
    /\ saves[1].result = "ok"
    /\ bhist.written = Some(saves[1].lib)
    /\ \E k \in DOMAIN saves[1].lib.files : saves[1].lib.files[k].tag = "File"
    /\ saves[1].lib.bookmarks # <<>>
    /\ DOMAIN saves[1].lib.api_src # {}
    /\ bmfile.value.bookmarks = saves[1].lib.bookmarks
    /\ bmfile.value.api_src = saves[1].lib.api_src

\* C12: a scan that returns Ok after a save_bookmarks of a library returned,
\* with no bookmark action and no other save since, gives a library with the
\* API-entry keys, the api_src and the bookmarks of the library that was
\* saved; also for a library with an API entry.
C12_SaveThenScanRecoversApiSubset ==
    (spc = "returned" /\ sresult.kind = "ok" /\ bhist.saved # None) =>
        /\ ApiKeys(sresult.lib) = ApiKeys(bhist.saved[1])
        /\ sresult.lib.api_src = bhist.saved[1].api_src
        /\ sresult.lib.bookmarks = bhist.saved[1].bookmarks

\* Every key of the files of a library names its value: a File is under
\* Local(its model), a ModelOnline under its endpoint_id.
KeysConsistent(lib) ==
    \A k \in DOMAIN lib.files :
        IF lib.files[k].tag = "File"
        THEN k = Local(lib.files[k].value.model)
        ELSE k = lib.files[k].value.endpoint_id

\* C13: in the library a scan returned, in the library the application
\* holds, and in the library of every save_bookmarks task, every key of files
\* names its value.
C13_KeysNameTheirValues ==
    /\ sresult.kind = "ok" => KeysConsistent(sresult.lib)
    /\ KeysConsistent(library)
    /\ \A i \in DOMAIN saves : saves[i].pc # "none" => KeysConsistent(saves[i].lib)

\* C13 witness: the application holds a scanned library with a local file,
\* a bookmark action has changed it, and the save is in flight.
C13_Witness ==
    /\ \E k \in DOMAIN library.files : library.files[k].tag = "File"
    /\ app.last = "Scanned(Ok)"
    /\ saves[1].pc = "write"
    /\ saves[1].lib = library
    /\ library.bookmarks # sresult.lib.bookmarks

\* C14: the bookmarks list of the library the application holds names no
\* endpoint twice.
C14_NoDuplicateBookmarks ==
    \A m, n \in DOMAIN library.bookmarks :
        library.bookmarks[m] = library.bookmarks[n] => m = n

-----------------------------------------------------------------------------
(* Claims about the functions without side effects, checked under SpecPure *)

\* C16: for two endpoints a and b, slash_id() gives the id of each; when one
\* is Local and the other Remote, or both are Remote with different provider
\* types, they are unequal and a map keyed by both has two entries, also
\* when their ids are the same.
C16_LocalAndRemoteAreDistinctKeys ==
    pcall.fn = "EndpointId" =>
        LET a == pcall.args[1]
            b == pcall.args[2]
        IN  /\ pcall.out.ids = <<a.id, b.id>>
            /\ a.tag # b.tag => (~pcall.out.eq /\ pcall.out.keys = 2)
            /\ (a.tag = "Remote" /\ b.tag = "Remote" /\ a.api_type # b.api_type) =>
                   (~pcall.out.eq /\ pcall.out.keys = 2)

\* C16 witness: Local("a/b") and Remote{NanoGPT, "a/b"} were compared: two
\* keys, one slash_id.
C16_Witness ==
    /\ pcall.fn = "EndpointId"
    /\ pcall.args = <<Local(<<"a", "/", "b">>), Remote("NanoGPT", <<"a", "/", "b">>)>>
    /\ pcall.out.keys = 2
    /\ pcall.out.ids[1] = pcall.out.ids[2]

\* The buckets of a grouped listing in which a file of that name appears.
BucketsOf(files, path) ==
    { b \in DOMAIN files : \E n \in DOMAIN files[b] : files[b][n].name = path }

\* C17: in the listing File::list returns, a file entry named with the token
\* Q4_K_M is in bucket 4 and no other, one with IQ2_XS in bucket 2, one with
\* BF16 in bucket 16, one with F32 in bucket 32, and one with the token draft
\* is in no bucket.
C17_PrecisionBuckets ==
    (pcall.fn = "File::list" /\ pcall.out.kind = "ok") =>
        \A n \in DOMAIN pcall.args[2] :
            LET entry == pcall.args[2][n]
                buckets == BucketsOf(pcall.out.files, entry.path)
            IN  entry.type = "file" =>
                    /\ entry.path = PathQ4KM => buckets = {4}
                    /\ entry.path = PathIQ2XS => buckets = {2}
                    /\ entry.path = PathBF16 => buckets = {16}
                    /\ entry.path = PathF32 => buckets = {32}
                    /\ entry.path = PathDraft => buckets = {}

\* C17 witness: a listing of a BF16 file and a draft file returned the one
\* bucket 16.
C17_Witness ==
    /\ pcall.fn = "File::list"
    /\ pcall.out.kind = "ok"
    /\ pcall.args[2] = <<Entry("file", PathBF16, 1), Entry("file", PathDraft, 1)>>
    /\ DOMAIN pcall.out.files = {16}
    /\ Len(pcall.out.files[16]) = 1

\* C18: the list HFModel::search returns holds, in the order of the answer,
\* every model of the answer whose gated field is not the boolean true:
\* those with gated = false and those with a string.
C18_OnlyBooleanGateRemoved ==
    (pcall.fn = "HFModel::search" /\ pcall.out.kind = "ok") =>
        LET kept == SelectSeq(pcall.args[1], LAMBDA m : m.gated # GatedBool(TRUE))
        IN  pcall.out.models = [n \in DOMAIN kept |-> kept[n].id]

\* C19: ModelOnline::eq(a, b) is true exactly when the endpoint_id of a and
\* of b are the same.
C19_EqualityIsEndpointId ==
    pcall.fn = "ModelOnline::eq" =>
        (pcall.out <=> pcall.args[1].endpoint_id = pcall.args[2].endpoint_id)

\* C19 witness: two values with one endpoint_id and a different cost, config
\* and status compared equal.
C19_Witness ==
    /\ pcall.fn = "ModelOnline::eq"
    /\ pcall.out
    /\ pcall.args[1].cost # pcall.args[2].cost
    /\ pcall.args[1].config # pcall.args[2].config
    /\ pcall.args[1].state_check # pcall.args[2].state_check

\* C20: for an id with a '/', author() has no '/' and author(), '/', name()
\* put together are the id (the split is at the first '/'); for an id
\* without a '/', author() and name() are both the id.
C20_SplitAtFirstSlash ==
    pcall.fn = "Id" =>
        LET id == pcall.args[1]
            a == pcall.out.author
            n == pcall.out.name
        IN  IF \E i \in DOMAIN id : id[i] = "/"
            THEN /\ \A i \in DOMAIN a : a[i] # "/"
                 /\ a \o <<"/">> \o n = id
            ELSE a = id /\ n = id

\* C20 witness: "a/b/" was split into "a" and "b/".
C20_Witness ==
    /\ pcall.fn = "Id"
    /\ pcall.args[1] = <<"a", "/", "b", "/">>
    /\ pcall.out.author = <<"a">>
    /\ pcall.out.name = <<"b", "/">>

-----------------------------------------------------------------------------
(* Claims about Library::status_check, checked under SpecStatus *)

\* The status_check futures for the endpoint that are in the given position.
ProbesAt(id, pc) == { i \in DOMAIN probes : probes[i].id = id /\ probes[i].pc = pc }

C22_FailedProbeEndsDown ==
    \A id \in ProbeIds :
        ( /\ ProbesAt(id, "returned") # {}
          /\ ProbesAt(id, "running") = {}
          /\ \A i \in ProbesAt(id, "returned") : probes[i].net \in {"down", "timeout"} )
        => /\ flags[id] = "Down"
           /\ \A i \in ProbesAt(id, "returned") : probes[i].result.kind = "ok"

\* C23: whatever the interleaving of the status_check futures for one
\* endpoint, once none of them is running the endpoint's flag is the value
\* one call alone leaves, and every value a reader has loaded from the cell
\* in the meantime is one of the four StatusCheck values.
C23_ConcurrentChecksAsOne ==
    /\ phist.seen \subseteq StatusChecks
    /\ \A id \in ProbeIds :
           (ProbesAt(id, "returned") # {} /\ ProbesAt(id, "running") = {})
           => flags[id] = StatusCheckBody(StatusDefault)

\* Two futures for the same endpoint have both run, and a reader has loaded
\* the flag.
C23_Witness ==
    /\ Cardinality(ProbesAt(RemoteC, "returned")) >= 2
    /\ phist.seen # {}

-----------------------------------------------------------------------------
(* Claims about Details::fetch and Model::list, checked under SpecPure *)

\* C24: Details::fetch called with a Remote endpoint panics, and no request
\* has been sent when it does; it returns neither Ok nor Err.
C24_RemoteFetchPanicsBeforeRequest ==
    (pcall.fn = "Details::fetch" /\ pcall.args[1].tag = "Remote")
    => (pcall.out.kind = "panic" /\ pcall.out.requests = <<>>)

\* Details::fetch has been called with a Remote endpoint.
C24_Witness ==
    /\ pcall.fn = "Details::fetch"
    /\ pcall.args[1] = Remote("NanoGPT", <<"a", "/", "b">>)
    /\ pcall.out.kind = "panic"

\* The providers of an api_src value whose kind has no adapter.
WithoutAdapter(src) == { k \in DOMAIN src : src[k].kind # "NanoGPT" }

\* The providers the iteration order visits before the first one without
\* an adapter.
VisitedBefore(src, order) ==
    { order[i] : i \in { j \in DOMAIN order :
                           \A h \in 1..j : order[h] \notin WithoutAdapter(src) } }

\* C25 (the claim as stated): Model::list never returns Ok when api_src
\* holds a provider whose kind is not NanoGPT, and it returns Ok with an
\* empty map only when api_src is empty.
C25_OkEmptyOnlyForNoProvider ==
    pcall.fn = "Model::list" =>
        /\ WithoutAdapter(pcall.args[1]) # {} => pcall.out.kind # "ok"
        /\ (pcall.out.kind = "ok" /\ DOMAIN pcall.out.models = {})
               => DOMAIN pcall.args[1] = {}

\* C25 (amended): Model::list never returns Ok when api_src holds a
\* provider whose kind is not NanoGPT, in whatever order the providers are
\* visited: it panics at that provider, unless a NanoGPT provider visited
\* before it has no configuration (a panic as well) or its listing fails
\* (Err). It returns Ok with an empty map when api_src is empty and also
\* when every provider is a NanoGPT provider whose listing holds no model.
C25_NoOkWithUnsupportedProvider ==
    pcall.fn = "Model::list" =>
        LET src == pcall.args[1]
            order == pcall.args[2]
            answer == pcall.args[3]
            out == pcall.out
        IN  /\ WithoutAdapter(src) # {} =>
                  /\ out.kind # "ok"
                  /\ out.kind = "err" =>
                         (VisitedBefore(src, order) # {} /\ answer.kind = "err")
                  /\ (out.kind = "panic" /\ out.at = "unwrap") =>
                         \E k \in VisitedBefore(src, order) : src[k].openai_compat = None
            /\ (out.kind = "ok" /\ DOMAIN out.models = {}) <=>
                  /\ WithoutAdapter(src) = {}
                  /\ \A k \in DOMAIN src : src[k].openai_compat # None
                  /\ DOMAIN src # {} => (answer.kind = "ok" /\ answer.data = <<>>)

\* Model::list has met a provider without an adapter after a NanoGPT
\* provider that listed its models.
C25_Witness ==
    /\ pcall.fn = "Model::list"
    /\ pcall.args[2] = <<"NanoGPT", "OpenAI">>
    /\ pcall.args[3].kind = "ok"
    /\ pcall.out.kind = "panic"
    /\ pcall.out.at = "todo"

-----------------------------------------------------------------------------
(* A further claim about File::download, checked under SpecDownload *)

\* The place of the first operation of that name in the call's history, or
\* 0 when the call has not performed it.
FirstAt(op) ==
    IF Did(op) THEN CHOOSE i \in 1..Len(dlog) :
                        dlog[i].op = op /\ \A j \in 1..(i - 1) : dlog[j].op # op
    ELSE 0

\* C26: a call of File::download that has issued a network request had
\* found the destination absent, or had found it with another size than the
\* recorded one and removed it, and after that the copy from the legacy
\* path had been tried and had failed; and whenever a call has made the
\* existence check, the legacy copy or a request, it had created the
\* destination's parent directory first.
C26_RequestIsLastResort ==
    /\ (Did("try_exists") \/ Did("copy") \/ Did("request")) =>
           /\ dlog[1] = [op |-> "create_dir_all", ok |-> TRUE]
           /\ dfile.model \in ddirs
    /\ Did("request") =>
           /\ \/ ~Exists(dpre.dest)
              \/ StaleAtCall /\ DidOk("remove_file")
           /\ Did("copy") /\ ~DidOk("copy")
           /\ DidOk("try_exists")
           /\ FirstAt("try_exists") < FirstAt("copy")
           /\ FirstAt("remove_file") < FirstAt("copy")
           /\ FirstAt("copy") < FirstAt("request")

\* A request has been issued for a file whose destination had the wrong
\* size and was removed, the legacy file being there but its copy failing.
C26_Witness ==
    /\ Did("request")
    /\ StaleAtCall
    /\ DidOk("remove_file")
    /\ Exists(dpre.old)

-----------------------------------------------------------------------------
(* Further claims about File::list, checked under SpecPure *)

\* C27 (the claim as stated): in the listing File::list returns, a file
\* whose variant segment is QQ4, QF16 or FF8 is in no bucket, because one
\* strip of one prefix leaves a remainder that is not a number.
C27_OnePrefixStrippedOnce ==
    (pcall.fn = "File::list" /\ pcall.out.kind = "ok") =>
        \A n \in DOMAIN pcall.args[2] :
            pcall.args[2][n].path \in {PathQQ4, PathQF16, PathFF8}
            => BucketsOf(pcall.out.files, pcall.args[2][n].path) = {}

\* The entries of an answer that File::list keeps for the bucket, in the
\* order of the answer.
KeptFor(entries, b) ==
    SelectSeq(entries,
              LAMBDA e : /\ e.type = "file"
                         /\ EndsWith(e.path, GGUFSuffix)
                         /\ Precision(e.path) = Some(b))

\* The File values of the kept entries.
FilesFor(id, entries, b) ==
    [n \in 1..Len(KeptFor(entries, b)) |->
        [model |-> id, name |-> KeptFor(entries, b)[n].path,
         size |-> Some(KeptFor(entries, b)[n].size)]]

\* C28: the mapping File::list returns has one bucket for each precision
\* that classifies some entry of type "file" whose path ends in .gguf, and
\* no other; the bucket holds exactly those entries, as File values with the
\* requested model id, the entry's path and the entry's size, in the order
\* of the answer; so an entry that is not a file, has another extension or
\* does not classify is in no bucket. The buckets iterate in ascending
\* order of Bits.
C28_ListGroupsFileEntries ==
    (pcall.fn = "File::list" /\ pcall.out.kind = "ok") =>
        LET id == pcall.args[1]
            entries == pcall.args[2]
            files == pcall.out.files
            keys == BTreeKeys(files)
        IN  /\ \A b \in 0..64 : b \in DOMAIN files <=> KeptFor(entries, b) # <<>>
            /\ \A b \in DOMAIN files : b \in 0..64 /\ files[b] = FilesFor(id, entries, b)
            /\ { keys[i] : i \in DOMAIN keys } = DOMAIN files
            /\ \A i, j \in DOMAIN keys : i < j => keys[i] < keys[j]

\* Two file entries of the same precision were listed after one another.
C28_Witness ==
    /\ pcall.fn = "File::list"
    /\ pcall.out.kind = "ok"
    /\ pcall.args[2] = <<Entry("file", PathQ4KM, 2), Entry("file", PathQ4KM, 1)>>
    /\ DOMAIN pcall.out.files = {4}
    /\ pcall.out.files[4][1].size = Some(2)
    /\ pcall.out.files[4][2].size = Some(1)

-----------------------------------------------------------------------------
(* Further claims about Library::scan, checked under SpecScan *)

\* The File the scan makes of a weight file at depth three, and its key.
CatalogKey(e) == Local(e.path[1] \o <<"/">> \o e.path[2])
CatalogFile(e) ==
    [model |-> e.path[1] \o <<"/">> \o e.path[2], name |-> e.path[3], size |-> Some(e.size)]

\* C29: at every step of a scan, and in the library it returns, every local
\* entry stands for a regular file with the weight-file extension at depth
\* author directory / model directory / file, and its key is
\* Local(<author dir name>/<model dir name>); so files at the author or model
\* level, weight files under the root or an author directory, directories
\* named like weight files and files nested deeper produce no entry.
C29_OnlyDepthThreeWeightFiles ==
    /\ \A k \in DOMAIN sfiles :
           \E e \in WeightFilesAtDepth3 :
               k = CatalogKey(e) /\ sfiles[k] = FileEntry(CatalogFile(e))
    /\ ScanReturnedOk =>
           \A k \in DOMAIN sresult.lib.files :
               sresult.lib.files[k].tag = "File" =>
                   \E e \in WeightFilesAtDepth3 :
                       k = CatalogKey(e) /\ sresult.lib.files[k] = FileEntry(CatalogFile(e))

\* A scan has returned for a tree with a weight file under the root, one
\* under the author directory, one below the model directory's
\* subdirectory and a directory named like a weight file.
C29_Witness ==
    /\ ScanReturnedOk
    /\ \E e \in tree : e.path = <<Stray>>
    /\ \E e \in tree : e.path = <<Author1, Loose>>
    /\ \E e \in tree : e.path = <<Author1, ModelA, SubDir, Deep>>
    /\ \E e \in tree : e.path = <<Author1, ModelA, FileQ4>> /\ e.kind = "dir"
    /\ \E e \in tree : e.path = <<Author1, ModelA, FileQ8>>
    /\ DOMAIN sresult.lib.files = {Local(Author1 \o <<"/">> \o ModelA)}

\* C30 (the claim as stated): a scan that returns Ok for a bookmark file
\* holding the JSON of a bookmark value returns the registry merged from
\* both: under every key the walk catalogued, the walk's File; every entry
\* of the file's `apis` under another key, as it is in the file; and the
\* file's api_src and bookmarks.
C30_MergeKeepsBookmarkFile ==
    (ScanReturnedOk /\ bmfile.state = "readable" /\ bmfile.text = "json") =>
        LET b == bmfile.value
            lib == sresult.lib
        IN  /\ \A k \in DOMAIN sfiles :
                   k \in DOMAIN lib.files /\ lib.files[k] = sfiles[k]
            /\ \A k \in DOMAIN b.apis \ DOMAIN sfiles :
                   k \in DOMAIN lib.files /\ lib.files[k] = APIEntry(b.apis[k])
            /\ lib.api_src = b.api_src
            /\ lib.bookmarks = b.bookmarks

-----------------------------------------------------------------------------
(* Claims about bookmark actions racing with their saves, checked under
   SpecBookmarks *)

\* C32 (the claim as stated): every id whose last processed Bookmark action
\* was an addition is in the in-memory library's bookmarks, whatever
\* save_bookmarks completions have been delivered since.
C32_NoBookmarkLostInMemory ==
    \A id \in bhist.on : Contains(library.bookmarks, id)

\* C33 (the claim as stated): when bookmark actions have been processed, no
\* save_bookmarks task is in flight and none has failed, the bookmarks in
\* the bookmark file are the list the processed actions give when applied
\* in order.
C33_FileHoldsAllActions ==
    ( /\ bhist.applied # None
      /\ ~bhist.failed
      /\ \A i \in DOMAIN saves : saves[i].pc \in {"none", "returned"} )
    => bmfile.value.bookmarks = bhist.applied[1]

-----------------------------------------------------------------------------
(* Claims about the search screen, checked under SpecSearch and SpecDebounce *)

\* The ids the library bookmarks.
Bookmarked == { library.bookmarks[n] : n \in DOMAIN library.bookmarks }

\* C31: the probe tasks of a CheckStatus batch name no endpoint id twice,
\* every one of them names an id of the search screen's model map, and every
\* id of the map that is bookmarked (when bookmarks are asked for) or among
\* the first results has its task; a bookmarked id that is not in the map
\* has none. (batch.models is the map's key set when the batch ran.)
C31_OneProbePerListedId ==
    qhist.batch.ran =>
        LET tasks == qhist.batch.tasks
            wanted == (IF qhist.batch.with_bookmarks THEN Bookmarked ELSE {})
                          \cup qhist.batch.first
        IN  /\ \A i, j \in DOMAIN tasks : i # j => tasks[i] # tasks[j]
            /\ { tasks[n] : n \in DOMAIN tasks } = wanted \cap qhist.batch.models

\* A batch over the bookmarks and the first result, for an id that is both
\* and a bookmarked id that the map does not hold: one task.
C31_Witness ==
    /\ qhist.batch.ran
    /\ qhist.batch.with_bookmarks
    /\ qhist.batch.first = {RemoteC}
    /\ Bookmarked = {RemoteC, HubModel}
    /\ qhist.batch.models = {RemoteC}
    /\ qhist.batch.tasks = <<RemoteC>>

\* C34 (the claim as stated): search_temperature is the number of timers
\* started and not yet fired, and the last search was issued by a
\* SearchCooled after which no timer was pending.
C34_CounterCountsPendingTimers ==
    /\ search.search_temperature = timers
    /\ qhist.issued # None => qhist.pending = 0

\* C35: the counter never goes below 0 (nor above the timers started), and
\* when SearchChanged messages stop and every timer fires, from some point
\* on the counter is 0, no timer is pending, and if a SearchChanged reached
\* the screen the last search issued was for the text in the search field.
C35_DebounceSettles ==
    /\ [](search.search_temperature \in 0..MaxChanges)
    /\ <>[]( /\ search.search_temperature = 0
             /\ timers = 0
             /\ qhist.changed => qhist.issued = Some(search.search) )

\* A SearchCooled found the counter at 0, and the screen has settled after
\* a search for the last text typed.
C35_Witness ==
    /\ qhist.cooled_at_zero
    /\ qhist.changed
    /\ search.search_temperature = 0
    /\ timers = 0
    /\ search.search = "b"
    /\ qhist.issued = Some("b")

\* A step that stores nothing new in the mode and starts no fetch but for
\* a hub model of the map that the mode then shows.
SelectsOnlyListedModels ==
    /\ search'.mode # search.mode =>
           \/ search'.mode = ModeSearch
           \/ /\ search'.mode.model # None
              /\ search'.mode.model[1] \in DOMAIN search.models
              /\ search'.mode.details = None
              /\ search'.mode.files = None
           \/ /\ search'.mode.tag = "HFDetails"
              /\ search'.mode.model = search.mode.model
              /\ \E r \in fetches \ fetches' : search.mode.model = Some(r.id)
    /\ \A r \in fetches' \ fetches :
           /\ r.id \in DOMAIN search.models
           /\ search.models[r.id] = "HF"
           /\ search'.mode = ModeHFDetails(r.id, None, None)
    /\ \A r \in fetches \ fetches' :
           ~ShowsModel(search.mode, r.id) => search'.mode = search.mode

C37_NotSearchingWithoutRequest ==
    requests = NoRequests => ~search.is_searching

-----------------------------------------------------------------------------
(* Claims about FileAndAPI::download and FileAndAPI::list, checked under
   SpecInstalled *)

\* C38 (the claim as stated): entries with different endpoint ids are
\* written to different paths, so a download that finds a descriptor at its
\* path, and for that reason writes nothing, finds the descriptor of its
\* own endpoint id.
C38_DistinctEndpointsDistinctFiles ==
    ( /\ ApiCall
      /\ jcall.result.kind = "ok"
      /\ FromStr(jcall.before[JsonPath(jcall.entry.api[1])]) # None )
    => FromStr(jcall.before[JsonPath(jcall.entry.api[1])])[1].endpoint_id
           = jcall.entry.api[1].endpoint_id

\* The files of the root whose name ends in ".json".
JsonFiles ==
    { p \in DOMAIN jfs :
        /\ jfs[p] # NoDoc
        /\ Len(p.name) >= 5
        /\ SubSeq(p.name, Len(p.name) - 4, Len(p.name)) = <<".">> \o JSON }

\* C39 (the claim as stated): a list that returns Ok after a successful
\* download of an entry into an empty root returns that entry alone, with
\* no file side; a list that returns Ok returns one element per .json file;
\* and a list returns Err when a .json file holds no descriptor.
C39_DescriptorRoundTrip ==
    /\ ( /\ jlist.kind = "ok"
         /\ ApiCall
         /\ jcall.result.kind = "ok"
         /\ \A p \in DOMAIN jfs : jcall.before[p] = NoDoc )
       => /\ Len(jlist.models) = 1
          /\ jlist.models[1].file = None
          /\ jlist.models[1].api # None
          /\ jlist.models[1].api[1].endpoint_id = jcall.entry.api[1].endpoint_id
    /\ jlist.kind = "ok" => Len(jlist.models) = Cardinality(JsonFiles)
    /\ (jlist.ran /\ \E p \in JsonFiles : FromStr(jfs[p]) = None) => jlist.kind = "err"

=============================================================================
